---- MODULE Spec2Model ----
(***************************************************************************)
(* Excelly: the multi-turn conversation and model-routing core.            *)
(*                                                                         *)
(*   - the Clarification Engine (ConversationService) of the 2025-08-15    *)
(*     backup, driven by that backup's /api/chat/ask handler and           *)
(*     AIService.process_chat_request, over the SessionService             *)
(*     persistence of conversation contexts;                               *)
(*   - the Model Gateway of the current AIService (the _call_* methods     *)
(*     and the response generators built on them);                         *)
(*   - the current /api/chat/ask handler with its concurrent requests,     *)
(*     over the current AIService.process_chat_request;                    *)
(*   - the classifiers (also called a second time, after a restart of the  *)
(*     process), the question generation, the context writer and reader    *)
(*     and the current process_chat_request, each called directly.         *)
(*                                                                         *)
(* Text is a sequence of characters.  A Hangul syllable is one character,  *)
(* written "k_" followed by its romanisation (the module is ASCII only):   *)
(* for instance <<"k_jeong", "k_ri", "k_hae", "k_jwo">> is the four        *)
(* character request "jeong-ri-hae-jwo" ("clean it up").                   *)
(***************************************************************************)
EXTENDS Integers, Sequences, FiniteSets, TLC

(***************************************************************************)
(* Bounds of the model.                                                    *)
(***************************************************************************)
\* longest pending-question queue handed to the Clarification Engine
MaxQueue == 3
\* largest max_clarifications of a context handed to the engine
MaxLimit == 3
\* number of /ask turns explored on the session
MaxTurns == 5

(***************************************************************************)
(* Python string operations                                                *)
(***************************************************************************)
UpperCase == {"A", "B", "C", "D", "E", "F", "G", "H", "I", "J", "K", "L", "M",
              "N", "O", "P", "Q", "R", "S", "T", "U", "V", "W", "X", "Y", "Z"}

LowerCase == {"a", "b", "c", "d", "e", "f", "g", "h", "i", "j", "k", "l", "m",
              "n", "o", "p", "q", "r", "s", "t", "u", "v", "w", "x", "y", "z"}

Digits == {"0", "1", "2", "3", "4", "5", "6", "7", "8", "9"}

LowerOf ==
  "A" :> "a" @@ "B" :> "b" @@ "C" :> "c" @@ "D" :> "d" @@ "E" :> "e" @@ "F" :> "f" @@
  "G" :> "g" @@ "H" :> "h" @@ "I" :> "i" @@ "J" :> "j" @@ "K" :> "k" @@ "L" :> "l" @@
  "M" :> "m" @@ "N" :> "n" @@ "O" :> "o" @@ "P" :> "p" @@ "Q" :> "q" @@ "R" :> "r" @@
  "S" :> "s" @@ "T" :> "t" @@ "U" :> "u" @@ "V" :> "v" @@ "W" :> "w" @@ "X" :> "x" @@
  "Y" :> "y" @@ "Z" :> "z"

\* str.lower()
Lower(s) ==
  LET lowered == [i \in 1..Len(s) |-> IF s[i] \in UpperCase THEN LowerOf[s[i]] ELSE s[i]]
  IN  SubSeq(lowered, 1, Len(s))

\* k in s (substring test)
Contains(s, k) ==
  \E i \in 1..(Len(s) - Len(k) + 1) : SubSeq(s, i, i + Len(k) - 1) = k

\* any(k in s for k in keywords)
ContainsAny(s, keywords) == \E k \in keywords : Contains(s, k)

\* str.startswith(p)
StartsWith(s, p) == Len(s) >= Len(p) /\ SubSeq(s, 1, Len(p)) = p

\* str.strip()
Strip(s) ==
  LET inside == {i \in 1..Len(s) : s[i] # " "}
      first  == CHOOSE i \in inside : \A j \in inside : i <= j
      last   == CHOOSE i \in inside : \A j \in inside : j <= i
  IN  IF inside = {} THEN <<>> ELSE SubSeq(s, first, last)

\* str.isdigit()
IsDigit(s) == Len(s) > 0 /\ \A i \in 1..Len(s) : s[i] \in Digits

\* len(s.split())
SplitCount(s) ==
  Cardinality({i \in 1..Len(s) : s[i] # " " /\ (i = 1 \/ s[i - 1] = " ")})

\* re.search(r'[a-z]yeol', s): a lower-case letter followed by the syllable "yeol" (column)
HasColumnRef(s) ==
  \E i \in 1..(Len(s) - 1) : s[i] \in LowerCase /\ s[i + 1] = "k_yeol"

(***************************************************************************)
(* Keyword tables of the heuristics, in source order.                      *)
(***************************************************************************)
\* _is_specific_task_request (backup_2025-08-15_15-15-52/app/services/ai_service.py:877-883)
function_keywords ==
  { <<"v", "l", "o", "o", "k", "u", "p">>, <<"x", "l", "o", "o", "k", "u", "p">>,
    <<"h", "l", "o", "o", "k", "u", "p">>, <<"i", "n", "d", "e", "x">>,
    <<"m", "a", "t", "c", "h">>, <<"s", "u", "m", "i", "f">>,
    <<"c", "o", "u", "n", "t", "i", "f">>, <<"a", "v", "e", "r", "a", "g", "e", "i", "f">>,
    <<"i", "f">>, <<"a", "n", "d">>, <<"o", "r">>,
    <<"c", "o", "n", "c", "a", "t", "e", "n", "a", "t", "e">>, <<"l", "e", "f", "t">>,
    <<"r", "i", "g", "h", "t">>, <<"m", "i", "d">>, <<"l", "e", "n">>, <<"t", "r", "i", "m">>,
    <<"s", "u", "b", "s", "t", "i", "t", "u", "t", "e">>, <<"r", "e", "p", "l", "a", "c", "e">>,
    <<"f", "i", "n", "d">>, <<"s", "e", "a", "r", "c", "h">>, <<"d", "a", "t", "e">>,
    <<"t", "o", "d", "a", "y">>, <<"n", "o", "w">>, <<"y", "e", "a", "r">>,
    <<"m", "o", "n", "t", "h">>, <<"d", "a", "y">>, <<"w", "e", "e", "k", "d", "a", "y">>,
    <<"e", "o", "m", "o", "n", "t", "h">>, <<"d", "a", "t", "e", "d", "i", "f">>,
    <<"i", "s", "n", "u", "m", "b", "e", "r">>, <<"i", "s", "t", "e", "x", "t">>,
    <<"i", "s", "n", "a">>, <<"i", "s", "b", "l", "a", "n", "k">>,
    <<"i", "s", "e", "r", "r", "o", "r">>, <<"k_sus", "k_ja", "k_in", "k_ji">>,
    <<"k_mun", "k_ja", "k_in", "k_ji">>, <<"k_hwag", "k_in">> }

\* _is_specific_task_request (backup_2025-08-15_15-15-52/app/services/ai_service.py:886-891)
operation_keywords ==
  { <<"k_chaj", "k_a", "k_seo">>, <<"k_ga", "k_jyeo", "k_wa">>, <<"k_yeon", "k_gyeol">>,
    <<"k_hab", "k_gye">>, <<"k_pyeong", "k_gyun">>, <<"k_gae", "k_su">>, <<"k_jeong", "k_ryeol">>,
    <<"k_pil", "k_teo">>, <<"k_jung", "k_bog", " ", "k_je", "k_geo">>, <<"k_jeong", "k_ri">>,
    <<"k_bun", "k_seog">>, <<"k_yo", "k_yag">>, <<"k_geu", "k_rae", "k_peu">>,
    <<"k_cha", "k_teu">>, <<"k_mae", "k_keu", "k_ro">>, <<"k_ja", "k_dong", "k_hwa">>,
    <<"k_jo", "k_geon", "k_bu">>, <<"k_seo", "k_sig">>, <<"k_su", "k_sig">>, <<"k_ham", "k_su">>,
    <<"k_ko", "k_deu">>, <<"k_seu", "k_keu", "k_rib", "k_teu">>, <<"v", "b", "a">>,
    <<"k_hwag", "k_in", "k_ha", "k_go">>,
    <<"k_hwag", "k_in", "k_ha", "k_go", " ", "k_sip", "k_eo">>,
    <<"k_al", "k_go", " ", "k_sip", "k_eo">>, <<"k_won", "k_hae">>, <<"k_pil", "k_yo", "k_hae">> }

\* _is_specific_task_request (backup_2025-08-15_15-15-52/app/services/ai_service.py:894-897)
excel_keywords ==
  { <<"k_yeol">>, <<"k_haeng">>, <<"k_sel">>, <<"k_si", "k_teu">>, <<"k_wo", "k_keu", "k_bug">>,
    <<"k_beom", "k_wi">>, <<"k_pi", "k_beos">>, <<"k_te", "k_i", "k_beul">>,
    <<"k_de", "k_i", "k_teo">>, <<"k_gabs">>, <<"k_cham", "k_jo">>, <<"k_ring", "k_keu">>,
    <<"k_bog", "k_sa">>, <<"k_but", "k_yeo", "k_neoh", "k_gi">>, <<"k_sab", "k_ib">>,
    <<"k_sag", "k_je">>, <<"k_i", "k_dong">> }

\* _is_vba_or_complex_request (backup_2025-08-15_15-15-52/app/services/ai_service.py:920-923)
vba_keywords ==
  { <<"v", "b", "a">>, <<"k_mae", "k_keu", "k_ro">>, <<"k_ko", "k_deu">>,
    <<"k_seu", "k_keu", "k_rib", "k_teu">>, <<"k_ja", "k_dong", "k_hwa">>,
    <<"k_peu", "k_ro", "k_geu", "k_raem">>, <<"k_ham", "k_su">>,
    <<"k_seo", "k_beu", "k_ru", "k_tin">>, <<"f", "o", "r">>, <<"w", "h", "i", "l", "e">>,
    <<"i", "f">>, <<"t", "h", "e", "n">>, <<"e", "l", "s", "e">>, <<"e", "n", "d", " ", "i", "f">>,
    <<"l", "o", "o", "p">>, <<"n", "e", "x", "t">>, <<"d", "i", "m">>, <<"s", "e", "t">> }

\* _is_vba_or_complex_request (backup_2025-08-15_15-15-52/app/services/ai_service.py:926-931)
complex_keywords ==
  { <<"k_tong", "k_hab">>, <<"k_hab", "k_chi", "k_gi">>, <<"k_byeong", "k_hab">>,
    <<"k_yeon", "k_gyeol">>, <<"k_mo", "k_deun">>, <<"k_jeon", "k_che">>, <<"k_si", "k_teu">>,
    <<"k_pa", "k_il">>, <<"k_nyeon", "k_do">>, <<"k_wol", "k_byeol">>, <<"k_mae", "k_chul">>,
    <<"k_ja", "k_ryo">>, <<"k_de", "k_i", "k_teo">>, <<"k_gwan", "k_ri">>, <<"k_jeong", "k_ri">>,
    <<"k_bun", "k_seog">>, <<"k_yo", "k_yag">>, <<"k_jib", "k_gye">>, <<"k_tong", "k_gye">>,
    <<"1", "k_wol">>, <<"2", "k_wol">>, <<"3", "k_wol">>, <<"4", "k_wol">>, <<"5", "k_wol">>,
    <<"6", "k_wol">>, <<"7", "k_wol">>, <<"8", "k_wol">>, <<"9", "k_wol">>, <<"1", "0", "k_wol">>,
    <<"1", "1", "k_wol">>, <<"1", "2", "k_wol">>, <<"k_gag", " ", "k_i", "k_reum">>,
    <<"k_gag", " ", "k_si", "k_teu">>, <<"k_yeo", "k_reo", " ", "k_si", "k_teu">>,
    <<"k_yeo", "k_reo", " ", "k_pa", "k_il">>, <<"k_nyeon", "k_do", "k_byeol">> }

\* _is_vba_or_complex_request (backup_2025-08-15_15-15-52/app/services/ai_service.py:941-947)
complex_patterns ==
  { <<"k_si", "k_teu", "k_e", " ", "k_jeo", "k_jang">>,
    <<"k_pa", "k_il", "k_ro", " ", "k_gwan", "k_ri">>,
    <<"k_han", " ", "k_si", "k_teu", "k_e", " ", "k_tong", "k_hab">>,
    <<"k_mo", "k_deun", " ", "k_mae", "k_chul", "k_ja", "k_ryo">>,
    <<"k_nyeon", "k_do", "k_byeol", "k_ro">> }

\* _is_specific_enough (backup_2025-08-15_15-15-52/app/services/ai_service.py:956-980)
specific_indicators ==
  { <<"v", "l", "o", "o", "k", "u", "p">>, <<"x", "l", "o", "o", "k", "u", "p">>,
    <<"h", "l", "o", "o", "k", "u", "p">>, <<"i", "n", "d", "e", "x">>,
    <<"m", "a", "t", "c", "h">>, <<"s", "u", "m", "i", "f">>,
    <<"c", "o", "u", "n", "t", "i", "f">>, <<"a", "v", "e", "r", "a", "g", "e", "i", "f">>,
    <<"i", "f">>, <<"a", "n", "d">>, <<"o", "r">>,
    <<"c", "o", "n", "c", "a", "t", "e", "n", "a", "t", "e">>, <<"l", "e", "f", "t">>,
    <<"r", "i", "g", "h", "t">>, <<"m", "i", "d">>, <<"l", "e", "n">>, <<"t", "r", "i", "m">>,
    <<"s", "u", "b", "s", "t", "i", "t", "u", "t", "e">>, <<"r", "e", "p", "l", "a", "c", "e">>,
    <<"f", "i", "n", "d">>, <<"s", "e", "a", "r", "c", "h">>, <<"d", "a", "t", "e">>,
    <<"t", "o", "d", "a", "y">>, <<"n", "o", "w">>, <<"y", "e", "a", "r">>,
    <<"m", "o", "n", "t", "h">>, <<"d", "a", "y">>, <<"w", "e", "e", "k", "d", "a", "y">>,
    <<"e", "o", "m", "o", "n", "t", "h">>, <<"d", "a", "t", "e", "d", "i", "f">>,
    <<"i", "s", "n", "u", "m", "b", "e", "r">>, <<"i", "s", "t", "e", "x", "t">>,
    <<"i", "s", "n", "a">>, <<"i", "s", "b", "l", "a", "n", "k">>,
    <<"i", "s", "e", "r", "r", "o", "r">>, <<"k_sus", "k_ja", "k_in", "k_ji">>,
    <<"k_mun", "k_ja", "k_in", "k_ji">>, <<"k_hwag", "k_in">>, <<"k_chaj", "k_a", "k_seo">>,
    <<"k_ga", "k_jyeo", "k_wa">>, <<"k_yeon", "k_gyeol">>, <<"k_hab", "k_gye">>,
    <<"k_pyeong", "k_gyun">>, <<"k_gae", "k_su">>, <<"k_jeong", "k_ryeol">>, <<"k_pil", "k_teo">>,
    <<"k_jung", "k_bog", " ", "k_je", "k_geo">>, <<"k_jeong", "k_ri">>, <<"k_bun", "k_seog">>,
    <<"k_yo", "k_yag">>, <<"k_geu", "k_rae", "k_peu">>, <<"k_cha", "k_teu">>,
    <<"k_mae", "k_keu", "k_ro">>, <<"k_ja", "k_dong", "k_hwa">>, <<"k_jo", "k_geon", "k_bu">>,
    <<"k_seo", "k_sig">>, <<"k_su", "k_sig">>, <<"k_ham", "k_su">>, <<"k_ko", "k_deu">>,
    <<"k_seu", "k_keu", "k_rib", "k_teu">>, <<"v", "b", "a">>,
    <<"k_hwag", "k_in", "k_ha", "k_go">>,
    <<"k_hwag", "k_in", "k_ha", "k_go", " ", "k_sip", "k_eo">>,
    <<"k_al", "k_go", " ", "k_sip", "k_eo">>, <<"k_won", "k_hae">>, <<"k_pil", "k_yo", "k_hae">>,
    <<"a", "k_yeol">>, <<"b", "k_yeol">>, <<"c", "k_yeol">>, <<"d", "k_yeol">>, <<"e", "k_yeol">>,
    <<"f", "k_yeol">>, <<"g", "k_yeol">>, <<"h", "k_yeol">>, <<"i", "k_yeol">>, <<"j", "k_yeol">>,
    <<"1", "k_haeng">>, <<"2", "k_haeng">>, <<"3", "k_haeng">>, <<"4", "k_haeng">>,
    <<"5", "k_haeng">>, <<"k_si", "k_teu">>, <<"k_pa", "k_il">>, <<"k_de", "k_i", "k_teo">>,
    <<"k_peu", "k_ro", "k_geu", "k_raem">>, <<"k_seo", "k_beu", "k_ru", "k_tin">>,
    <<"k_tong", "k_hab">>, <<"k_hab", "k_chi", "k_gi">>, <<"k_byeong", "k_hab">>,
    <<"k_mo", "k_deun">>, <<"k_jeon", "k_che">>, <<"k_nyeon", "k_do">>, <<"k_wol", "k_byeol">>,
    <<"k_mae", "k_chul">>, <<"k_ja", "k_ryo">>, <<"k_gwan", "k_ri">>, <<"k_jib", "k_gye">>,
    <<"k_tong", "k_gye">>, <<"1", "k_wol">>, <<"2", "k_wol">>, <<"3", "k_wol">>, <<"4", "k_wol">>,
    <<"5", "k_wol">>, <<"6", "k_wol">>, <<"7", "k_wol">>, <<"8", "k_wol">>, <<"9", "k_wol">>,
    <<"1", "0", "k_wol">>, <<"1", "1", "k_wol">>, <<"1", "2", "k_wol">>,
    <<"k_gag", " ", "k_i", "k_reum">>, <<"k_gag", " ", "k_si", "k_teu">>,
    <<"k_yeo", "k_reo", " ", "k_si", "k_teu">>, <<"k_yeo", "k_reo", " ", "k_pa", "k_il">>,
    <<"k_nyeon", "k_do", "k_byeol">> }

\* _is_specific_enough (backup_2025-08-15_15-15-52/app/services/ai_service.py:991-999)
specific_patterns ==
  { <<"k_si", "k_teu", "k_e", " ", "k_jeo", "k_jang">>,
    <<"k_pa", "k_il", "k_ro", " ", "k_gwan", "k_ri">>,
    <<"k_han", " ", "k_si", "k_teu", "k_e", " ", "k_tong", "k_hab">>,
    <<"k_mo", "k_deun", " ", "k_mae", "k_chul", "k_ja", "k_ryo">>,
    <<"k_nyeon", "k_do", "k_byeol", "k_ro">>, <<"v", "b", "a", "k_ro">>,
    <<"k_mae", "k_keu", "k_ro", "k_ro">> }

\* _has_multiple_interpretations (backup_2025-08-15_15-15-52/app/services/ai_service.py:1008-1015)
ambiguous_phrases ==
  { <<"k_jeong", "k_ri", "k_hae", "k_jwo">>, <<"k_bun", "k_seog", "k_hae", "k_jwo">>,
    <<"k_yo", "k_yag", "k_hae", "k_jwo">>, <<"k_man", "k_deul", "k_eo", "k_jwo">>,
    <<"k_hae", "k_jwo">>, <<"k_do", "k_wa", "k_jwo">> }

\* analyze_question_for_clarification (backup_2025-08-15_15-15-52/app/services/conversation_service.py:23-29)
immediate_answer_keywords ==
  { <<"V", "L", "O", "O", "K", "U", "P">>, <<"H", "L", "O", "O", "K", "U", "P">>,
    <<"I", "N", "D", "E", "X">>, <<"M", "A", "T", "C", "H">>, <<"I", "F">>, <<"S", "U", "M">>,
    <<"C", "O", "U", "N", "T">>, <<"A", "V", "E", "R", "A", "G", "E">>, <<"B", "k_yeol">>,
    <<"C", "k_yeol">>, <<"D", "k_yeol">>, <<"E", "k_yeol">>, <<"F", "k_yeol">>, <<"G", "k_yeol">>,
    <<"H", "k_yeol">>, <<"I", "k_yeol">>, <<"J", "k_yeol">>, <<"K", "k_yeol">>, <<"L", "k_yeol">>,
    <<"1", "k_haeng">>, <<"2", "k_haeng">>, <<"3", "k_haeng">>, <<"4", "k_haeng">>,
    <<"5", "k_haeng">>, <<"6", "k_haeng">>, <<"7", "k_haeng">>, <<"8", "k_haeng">>,
    <<"9", "k_haeng">>, <<"1", "0", "k_haeng">>, <<"k_seo", "k_sig">>,
    <<"k_bul", "k_il", "k_chi">>, <<"k_gong", "k_baeg">>, <<"k_o", "k_ryu">>,
    <<"k_hae", "k_gyeol">>, <<"k_bang", "k_beob">>, <<"k_eo", "k_tteoh", "k_ge">>, <<"k_wae">>,
    <<"k_an", "k_doe">>, <<"k_ko", "k_deu">>, <<"k_gabs">>, <<"k_chaj", "k_gi">>,
    <<"k_ban", "k_hwan">>, <<"k_il", "k_chi">>, <<"k_jeong", "k_hwag">>, <<"k_mun", "k_je">>,
    <<"k_su", "k_jeong">>, <<"k_gae", "k_seon">> }

\* analyze_question_for_clarification (backup_2025-08-15_15-15-52/app/services/conversation_service.py:32-34)
continuation_keywords ==
  { <<"k_gye", "k_sog">>, <<"k_gye", "k_sog", "k_hae">>, <<"k_gye", "k_sog", "k_hae", "k_jwo">>,
    <<"k_gye", "k_sog", "k_hae", "k_jyo">>, <<"k_i", "k_eo", "k_seo">>, <<"k_i", "k_eo">>,
    <<"k_jin", "k_haeng">>, <<"k_jin", "k_haeng", "k_hae">>,
    <<"c", "o", "n", "t", "i", "n", "u", "e">> }

\* _is_file_generation_request (app/services/ai_service.py:1699-1705)
explicit_file_generation_keywords ==
  { <<"k_pa", "k_il", "k_ro", " ", "k_man", "k_deul", "k_eo", "k_jwo">>,
    <<"k_pa", "k_il", " ", "k_man", "k_deul", "k_eo", "k_jwo">>,
    <<"k_pa", "k_il", "k_ro", " ", "k_man", "k_deul", "k_eo", "k_dal", "k_ra">>,
    <<"k_pa", "k_il", "k_ro", " ", "k_man", "k_deul", "k_eo", "k_dal", "k_ra", "k_go">>,
    <<"k_pa", "k_il", "k_ro", " ", "k_man", "k_deul", "k_eo", "k_dal", "k_ra", "k_go", "k_yo">>,
    <<"k_pa", "k_il", "k_ro", " ", "k_man", "k_deul", "k_eo", "k_dal", "k_ra", "k_gu", "k_yo">>,
    <<"k_pa", "k_il", "k_ro", " ", "k_man", "k_deul", "k_eo", "k_dal", "k_ra", "k_gu">>,
    <<"k_pa", "k_il", "k_saeng", "k_seong", "k_hae", "k_jwo">>,
    <<"k_pa", "k_il", " ", "k_saeng", "k_seong", "k_hae", "k_jwo">>,
    <<"k_pa", "k_il", "k_saeng", "k_seong", "k_hae", "k_dal", "k_ra">>,
    <<"k_pa", "k_il", " ", "k_saeng", "k_seong", "k_hae", "k_dal", "k_ra">>,
    <<"k_da", "k_un", "k_ro", "k_deu", "k_hae", "k_jwo">>, <<"k_jeo", "k_jang", "k_hae", "k_jwo">>,
    <<"k_pa", "k_il", "k_ro", " ", "k_jeo", "k_jang", "k_hae", "k_jwo">>,
    <<"k_pa", "k_il", "k_ro", " ", "k_da", "k_un", "k_ro", "k_deu", "k_hae", "k_jwo">>,
    <<"k_eg", "k_sel", "k_pa", "k_il", "k_ro", " ", "k_man", "k_deul", "k_eo", "k_jwo">>,
    <<"k_eg", "k_sel", " ", "k_pa", "k_il", "k_ro", " ", "k_man", "k_deul", "k_eo", "k_jwo">>,
    <<"k_gyeol", "k_gwa", "k_pa", "k_il", "k_ro", " ", "k_man", "k_deul", "k_eo", "k_jwo">>,
    <<"k_gyeol", "k_gwa", " ", "k_pa", "k_il", "k_ro", " ", "k_man", "k_deul", "k_eo", "k_jwo">> }

\* _is_complex_task (app/services/ai_service.py:1726-1738)
task_complex_keywords ==
  { <<"v", "b", "a">>, <<"k_mae", "k_keu", "k_ro">>, <<"k_ko", "k_deu">>,
    <<"k_seu", "k_keu", "k_rib", "k_teu">>, <<"k_peu", "k_ro", "k_geu", "k_raem">>,
    <<"k_seo", "k_beu", "k_ru", "k_tin">>, <<"k_ham", "k_su">>, <<"k_tong", "k_hab">>,
    <<"k_hab", "k_chi", "k_gi">>, <<"k_byeong", "k_hab">>, <<"k_yeon", "k_gyeol">>,
    <<"k_mo", "k_deun">>, <<"k_jeon", "k_che">>, <<"k_si", "k_teu">>, <<"k_nyeon", "k_do">>,
    <<"k_wol", "k_byeol">>, <<"k_bog", "k_jab", "k_han">>, <<"k_go", "k_geub">>,
    <<"k_go", "k_geub", " ", "k_gi", "k_neung">>, <<"k_jo", "k_hab">>, <<"k_yeo", "k_reo">>,
    <<"k_da", "k_jung">>, <<"k_yeon", "k_swae">>, <<"k_yeon", "k_gyeol", "k_doen">>,
    <<"k_jo", "k_geon", "k_bu", " ", "k_seo", "k_sig">>,
    <<"k_de", "k_i", "k_teo", " ", "k_yu", "k_hyo", "k_seong">>,
    <<"k_pi", "k_beos", " ", "k_te", "k_i", "k_beul">>, <<"k_cha", "k_teu">>,
    <<"k_geu", "k_rae", "k_peu">>, <<"k_si", "k_gag", "k_hwa">>,
    <<"k_de", "k_i", "k_teo", " ", "k_mo", "k_del">>, <<"k_gwan", "k_gye">>,
    <<"k_oe", "k_bu", " ", "k_de", "k_i", "k_teo">>, <<"k_kwo", "k_ri">>, <<"s", "q", "l">>,
    <<"k_de", "k_i", "k_teo", "k_be", "k_i", "k_seu">>, <<"f", "o", "r">>,
    <<"w", "h", "i", "l", "e">>, <<"l", "o", "o", "p">>, <<"n", "e", "x", "t">>, <<"d", "i", "m">>,
    <<"s", "e", "t">>, <<"t", "h", "e", "n">>, <<"e", "l", "s", "e">>,
    <<"e", "n", "d", " ", "i", "f">>, <<"k_tong", "k_gye", "k_bun", "k_seog">>,
    <<"k_tong", "k_gye", " ", "k_bun", "k_seog">>, <<"k_de", "k_i", "k_teo", "k_bun", "k_seog">>,
    <<"k_de", "k_i", "k_teo", " ", "k_bun", "k_seog">>, <<"k_in", "k_sa", "k_i", "k_teu">>,
    <<"k_choe", "k_jeog", "k_hwa">>, <<"k_pum", "k_jil", "k_jin", "k_dan">>,
    <<"k_pum", "k_jil", " ", "k_jin", "k_dan">>, <<"k_i", "k_sang", "k_chi">>,
    <<"k_i", "k_sang", " ", "k_chi">>, <<"k_gyeol", "k_cheug", "k_chi">>,
    <<"k_gyeol", "k_cheug", " ", "k_chi">>, <<"k_sang", "k_gwan", "k_gwan", "k_gye">>,
    <<"k_sang", "k_gwan", " ", "k_gwan", "k_gye">>, <<"k_bun", "k_po">>, <<"k_wae", "k_do">>,
    <<"k_cheom", "k_do">>, <<"k_gi", "k_sul", "k_tong", "k_gye">>,
    <<"k_gi", "k_sul", " ", "k_tong", "k_gye">>,
    <<"k_de", "k_i", "k_teo", "k_si", "k_gag", "k_hwa">>,
    <<"k_de", "k_i", "k_teo", " ", "k_si", "k_gag", "k_hwa">>,
    <<"k_dae", "k_si", "k_bo", "k_deu">>, <<"k_ri", "k_po", "k_teu">>, <<"k_bo", "k_go", "k_seo">> }

\* classify_question (app/services/ai_service.py:90-94)
beginner_keywords ==
  { <<"k_mo", "k_reu", "k_gess">>, <<"k_mo", "k_reu", "k_neun">>, <<"k_mo", "k_reum">>,
    <<"k_cheo", "k_eum">>, <<"k_cho", "k_bo">>, <<"k_eo", "k_tteoh", "k_ge">>,
    <<"k_bang", "k_beob">>, <<"k_do", "k_wa", "k_jwo">>,
    <<"k_do", "k_wa", "k_ju", "k_se", "k_yo">>, <<"k_an", "k_doe">>, <<"k_an", "k_dwae">>,
    <<"k_o", "k_ryu">>, <<"k_e", "k_reo">>, <<"k_mun", "k_je">>, <<"k_teul", "k_ryeoss">>,
    <<"k_jal", "k_mos">>, <<"k_i", "k_sang", "k_hae">>, <<"k_wae">>, <<"k_mwo", "k_ga">>,
    <<"k_eo", "k_di", "k_seo">>, <<"k_eo", "k_tteon">>, <<"k_mu", "k_eos">>, <<"k_eon", "k_je">>,
    <<"k_eo", "k_neu">>, <<"k_mwol">>, <<"k_mwon", "k_ji">> }

\* classify_question (app/services/ai_service.py:97-100)
advanced_keywords ==
  { <<"v", "l", "o", "o", "k", "u", "p">>, <<"i", "n", "d", "e", "x">>,
    <<"m", "a", "t", "c", "h">>, <<"p", "i", "v", "o", "t">>, <<"k_mae", "k_keu", "k_ro">>,
    <<"v", "b", "a">>, <<"k_ham", "k_su", "k_jo", "k_hab">>,
    <<"k_bae", "k_yeol", "k_su", "k_sig">>, <<"k_dong", "k_jeog">>, <<"k_ja", "k_dong", "k_hwa">>,
    <<"k_choe", "k_jeog", "k_hwa">>, <<"k_al", "k_go", "k_ri", "k_jeum">>,
    <<"k_jeong", "k_gyu", "k_sig">>, <<"a", "p", "i">>, <<"s", "q", "l">> }

\* classify_question (app/services/ai_service.py:103-108)
python_keywords ==
  { <<"k_pa", "k_i", "k_sseon">>, <<"p", "y", "t", "h", "o", "n">>,
    <<"p", "a", "n", "d", "a", "s">>, <<"n", "u", "m", "p", "y">>,
    <<"m", "a", "t", "p", "l", "o", "t", "l", "i", "b">>,
    <<"o", "p", "e", "n", "p", "y", "x", "l">>, <<"x", "l", "r", "d">>,
    <<"k_seu", "k_keu", "k_rib", "k_teu">>, <<"k_peu", "k_ro", "k_geu", "k_raem">>,
    <<"k_ko", "k_ding">>, <<"k_gae", "k_bal">>, <<"k_ra", "k_i", "k_beu", "k_reo", "k_ri">>,
    <<"k_mo", "k_dyul">>, <<"i", "m", "p", "o", "r", "t">>,
    <<"k_de", "k_i", "k_teo", "k_peu", "k_re", "k_im">>,
    <<"d", "a", "t", "a", "f", "r", "a", "m", "e">>, <<"k_si", "k_ri", "k_jeu">>,
    <<"s", "e", "r", "i", "e", "s">>, <<"f", "o", "r", "k_mun">>,
    <<"w", "h", "i", "l", "e", "k_mun">>, <<"k_ham", "k_su", "k_jeong", "k_ui">>,
    <<"d", "e", "f">>, <<"k_keul", "k_rae", "k_seu">>, <<"c", "l", "a", "s", "s">>,
    <<"k_gaeg", "k_che">>, <<"o", "b", "j", "e", "c", "t">> }

\* classify_question (app/services/ai_service.py:111-115)
classify_complex_keywords ==
  { <<"k_bog", "k_jab", "k_han">>, <<"k_go", "k_geub">>, <<"k_jeong", "k_gyo", "k_han">>,
    <<"k_choe", "k_jeog", "k_hwa">>, <<"k_seong", "k_neung">>, <<"k_dae", "k_yong", "k_ryang">>,
    <<"k_tong", "k_hab">>, <<"k_yeon", "k_dong">>, <<"k_ja", "k_dong", "k_hwa">>,
    <<"k_mae", "k_keu", "k_ro">>, <<"v", "b", "a">>, <<"k_seu", "k_keu", "k_rib", "k_teu">>,
    <<"k_peu", "k_ro", "k_geu", "k_raem">>, <<"k_ham", "k_su", "k_jo", "k_hab">>,
    <<"k_bae", "k_yeol", "k_su", "k_sig">>, <<"k_dong", "k_jeog">>, <<"k_sil", "k_si", "k_gan">>,
    <<"k_da", "k_jung">>, <<"k_byeong", "k_ryeol">>, <<"k_bi", "k_dong", "k_gi">>,
    <<"k_i", "k_ben", "k_teu">>, <<"k_kol", "k_baeg">> }

\* classify_question (app/services/ai_service.py:118-121)
classify_continuation_keywords ==
  { <<"k_gye", "k_sog">>, <<"k_gye", "k_sog", "k_hae">>, <<"k_i", "k_eo", "k_seo">>,
    <<"k_geu", "k_ri", "k_go">>, <<"k_tto", "k_han">>, <<"k_chu", "k_ga", "k_ro">>, <<"k_deo">>,
    <<"k_da", "k_eum">>, <<"k_wi", "k_e", "k_seo">>, <<"k_ap", "k_e", "k_seo">>,
    <<"k_i", "k_jeon">>, <<"k_bang", "k_geum">>, <<"k_a", "k_kka">>, <<"k_geu", "k_geo">>,
    <<"k_geu", "k_geos">>, <<"k_i", "k_geos">> }

\* _is_file_generation_request (app/services/ai_service.py:1714): the three
\* mis-decoded fragments, one token per character ("u_" and its code point)
broken_file_generation_keywords ==
  { <<"u_00ed", "u_0152", "u_0152", "u_00ec">>, <<"u_00ec", "u_0192">>,
    <<"u_00ec", "u_201e", "u_00b1">> }

\* _is_complex_task (app/services/ai_service.py:1749-1754)
operation_joiners == { <<"k_geu", "k_ri", "k_go">>, <<"k_tto", "k_han">>, <<"k_chu", "k_ga", "k_ro">> }
operation_multiples == { <<"k_yeo", "k_reo">>, <<"k_da", "k_jung">>, <<"k_bog", "k_hab">> }
operation_sheet == <<"k_si", "k_teu">>
operation_all == { <<"k_yeo", "k_reo">>, <<"k_mo", "k_deun">> }

(***************************************************************************)
(* State                                                                   *)
(***************************************************************************)
VARIABLES
  \* backup AIService: which clients _initialize_clients created
  gemini_model, openai_client,
  \* Clarification Engine called directly: the context object, the context
  \* before the last call, the answer given to the last call
  ectx, eprev, eanswer,
  enet,               \* the gateway's availability during the last call
  \* the session row (DBSession) and its messages (DBMessage)
  stored,             \* metadata_json["conversation_context"], or None
  temp_file_content,  \* the uploaded file's bytes, "" when there are none
  clarifying_sent,    \* the assistant rows of the transcript that ask for clarification
  \* the /ask turns made so far, and what the last one did
  turns, last,
  \* current AIService: the Gemini clients _initialize_clients created, and
  \* the outcome of the last response-generation operation
  gemini_pro_model, gemini_2_5_flash_model, gemini_2_0_flash_model, gresult,
  \* current /ask handler: the requests in arrival order, the DBMessage rows
  \* in timestamp order, the plan column of the session row
  reqs, transcript, plan,
  \* a service function called directly: the call and what it gave back
  call

clientVars  == <<gemini_model, openai_client>>
engineVars  == <<ectx, eprev, eanswer, enet>>
sessionVars == <<stored, temp_file_content, clarifying_sent, turns, last>>
gatewayVars == <<gemini_pro_model, gemini_2_5_flash_model, gemini_2_0_flash_model, gresult>>
askVars     == <<reqs, transcript, plan>>
callVars    == <<call>>
vars == <<clientVars, engineVars, sessionVars, gatewayVars, askVars, callVars>>

(***************************************************************************)
(* Data model (app/models/chat.py)                                         *)
(***************************************************************************)
ConversationState == {"initial", "clarifying", "planning", "executing", "completed"}

\* the closed set of question types
QuestionTypes == {"file_structure", "data_format", "goal", "constraints"}

\* the value of an absent object (Python None)
None == [none |-> TRUE]

\* the current AIService is not part of the run
GatewayUnused ==
  /\ gemini_pro_model = FALSE
  /\ gemini_2_5_flash_model = FALSE
  /\ gemini_2_0_flash_model = FALSE
  /\ gresult = None

\* the current /ask handler has served no request
AskUnused ==
  /\ reqs = <<>>
  /\ transcript = <<>>
  /\ plan = None

\* no service function has been called directly
CallsUnused == call = None

\* an empty dict
EmptyDict == [k \in {} |-> <<>>]

\* d[k] = v on a dict
DictSet(d, k, v) == [x \in (DOMAIN d) \cup {k} |-> IF x = k THEN v ELSE d[x]]

ClarificationQuestion(question, question_type) ==
  [question |-> question, question_type |-> question_type, is_required |-> TRUE]

\* current_understanding: "" | the gateway's text | the deterministic fallback
NoUnderstanding == [kind |-> "empty"]

ConversationContext(state, count, limit, pending, info, question, understanding) ==
  [state |-> state, clarification_count |-> count, max_clarifications |-> limit,
   pending_clarifications |-> pending, gathered_info |-> info,
   original_question |-> question, current_understanding |-> understanding]

(***************************************************************************)
(* Utterances the user sends                                               *)
(***************************************************************************)
\* ""
Q_empty == <<>>
\* "jeong-ri-hae-jwo" (clean it up), the spec's Scenario C
Q_cleanup == <<"k_jeong", "k_ri", "k_hae", "k_jwo">>
\* "do-wa-jwo" (help me)
Q_help == <<"k_do", "k_wa", "k_jwo">>
\* "VLOOKUP an dwae-yo" (VLOOKUP not working), the spec's Scenario B
Q_vlookup == <<"V", "L", "O", "O", "K", "U", "P", " ", "k_an", " ", "k_dwae", "k_yo">>
\* "3", a task-menu number
Q_three == <<"3">>

Utterances == {Q_empty, Q_cleanup, Q_help, Q_vlookup}

\* "[si-teu-seon-taeg]", the prefix of a sheet-selection request
SheetTag == <<"[", "k_si", "k_teu", "k_seon", "k_taeg", "]">>

SheetNames == {"Sheet1"}

\* "[si-teu-seon-taeg] 'Sheet1' si-teu-reul bun-seog-hae-jwo"
SheetQuestion(selected_sheet) ==
  SheetTag \o <<" ", "'">> \o
  (IF selected_sheet = "Sheet1" THEN <<"S", "h", "e", "e", "t", "1">> ELSE <<"?">>) \o
  <<"'", " ", "k_si", "k_teu", "k_reul", " ", "k_bun", "k_seog", "k_hae", "k_jwo">>

(***************************************************************************)
(* Backup Model Gateway (backup ai_service.py)                             *)
(***************************************************************************)
\* the backends the handler's paths call: Gemini Pro and OpenAI
OldBackends == {"gemini", "openai"}

\* net[b]: a request sent to backend b now returns text (else it times out or fails)
Nets == [OldBackends -> BOOLEAN]

\* every backend answers, no backend answers
NetUp   == [b \in OldBackends |-> TRUE]
NetDown == [b \in OldBackends |-> FALSE]

Raised == [ok |-> FALSE, by |-> "none"]
Text(b) == [ok |-> TRUE, by |-> b]

old_call_openai(net) ==
  IF ~openai_client THEN Raised
  ELSE IF net["openai"] THEN Text("openai") ELSE Raised

old_call_gemini(net) ==
  IF ~gemini_model THEN Raised
  ELSE IF net["gemini"] THEN Text("gemini") ELSE Raised

(***************************************************************************)
(* Clarification Engine (backup conversation_service.py)                   *)
(***************************************************************************)
\* ConversationService.__init__
max_clarifications == 2

create_conversation_context(original_question) ==
  ConversationContext("initial", 0, max_clarifications, <<>>, EmptyDict,
                      original_question, NoUnderstanding)

\* an understanding left empty when the gateway call fails
generate_final_understanding_blank(original_question, gathered_info, net) ==
  LET r == IF gemini_model THEN old_call_gemini(net) ELSE old_call_openai(net)
  IN  IF r.ok THEN [kind |-> "generated", by |-> r.by] ELSE NoUnderstanding

generate_final_understanding(original_question, gathered_info, net) ==
  LET r == IF gemini_model THEN old_call_gemini(net) ELSE old_call_openai(net)
  IN  IF r.ok THEN [kind |-> "generated", by |-> r.by]
      ELSE [kind |-> "fallback", original_question |-> original_question,
            gathered_info |-> gathered_info]

\* process_clarification_response finishing only when the queue is empty and
\* the limit is reached
process_clarification_response_both(c, user_answer, net) ==
  LET pending == c.pending_clarifications
      info    == IF pending # <<>>
                 THEN DictSet(c.gathered_info, pending[1].question_type, user_answer)
                 ELSE c.gathered_info
      rest    == IF pending # <<>> THEN Tail(pending) ELSE pending
      count   == c.clarification_count + 1
      c1      == [c EXCEPT !.gathered_info = info,
                           !.pending_clarifications = rest,
                           !.clarification_count = count]
  IN  IF rest = <<>> /\ count >= c.max_clarifications
      THEN [c1 EXCEPT !.current_understanding =
                         generate_final_understanding(c.original_question, info, net),
                      !.state = "planning"]
      ELSE [c1 EXCEPT !.state = "clarifying"]

\* The except branch (lines 328-331) is not reachable: the statements of the
\* try block do not raise and _generate_final_understanding catches its own
\* exceptions.
process_clarification_response(c, user_answer, net) ==
  LET pending == c.pending_clarifications
      info    == IF pending # <<>>
                 THEN DictSet(c.gathered_info, pending[1].question_type, user_answer)
                 ELSE c.gathered_info
      rest    == IF pending # <<>> THEN Tail(pending) ELSE pending
      count   == c.clarification_count + 1
      c1      == [c EXCEPT !.gathered_info = info,
                           !.pending_clarifications = rest,
                           !.clarification_count = count]
  IN  IF rest = <<>> \/ count >= c.max_clarifications
      THEN [c1 EXCEPT !.current_understanding =
                         generate_final_understanding(c.original_question, info, net),
                      !.state = "planning"]
      ELSE [c1 EXCEPT !.state = "clarifying"]

should_continue_clarification(c) ==
  /\ c.state = "clarifying"
  /\ c.clarification_count < c.max_clarifications
  /\ c.pending_clarifications # <<>>

(***************************************************************************)
(* The engine called directly                                              *)
(***************************************************************************)
\* queues of at most n questions
Queues(n) ==
  UNION {[1..k -> {ClarificationQuestion("generated", t) : t \in QuestionTypes}] : k \in 0..n}

InitClients ==
  /\ gemini_model \in BOOLEAN
  /\ openai_client \in BOOLEAN

\* a context as process_chat_request builds it: create_conversation_context,
\* then the queue assigned and the state set to CLARIFYING
InitEngine ==
  /\ InitClients
  /\ \E q \in {Q_cleanup, Q_help}, limit \in 1..MaxLimit, pending \in Queues(MaxQueue) :
       ectx = [create_conversation_context(q) EXCEPT
                 !.max_clarifications = limit,
                 !.pending_clarifications = pending,
                 !.state = "clarifying"]
  /\ eprev = None
  /\ eanswer = None
  /\ enet = None
  /\ stored = None
  /\ temp_file_content = ""
  /\ clarifying_sent = 0
  /\ turns = 0
  /\ last = None
  /\ GatewayUnused
  /\ AskUnused
  /\ CallsUnused

\* one call of process_clarification_response, made as process_chat_request
\* makes it: on a context in state CLARIFYING
ProcessAnswer ==
  /\ ectx.state = "clarifying"
  /\ \E a \in {Q_three, Q_vlookup}, net \in Nets :
       /\ ectx' = process_clarification_response(ectx, a, net)
       /\ eprev' = ectx
       /\ eanswer' = a
       /\ enet' = net
  /\ UNCHANGED <<clientVars, sessionVars, gatewayVars, askVars, callVars>>

NextEngine == ProcessAnswer

SpecEngine == InitEngine /\ [][NextEngine]_vars

(***************************************************************************)
(* Heuristics of the backup AIService                                      *)
(***************************************************************************)
is_specific_task_request(question) ==
  LET question_lower == Lower(question)
      has_function   == ContainsAny(question_lower, function_keywords)
      has_operation  == ContainsAny(question_lower, operation_keywords)
      has_excel_term == ContainsAny(question_lower, excel_keywords)
  IN  \/ has_function
      \/ (HasColumnRef(question_lower) /\ has_operation)
      \/ (has_operation /\ has_excel_term)

is_vba_or_complex_request(question) ==
  LET question_lower  == Lower(question)
      has_vba         == ContainsAny(question_lower, vba_keywords)
      complex_matches == Cardinality({k \in complex_keywords : Contains(question_lower, k)})
  IN  \/ has_vba
      \/ complex_matches >= 3
      \/ ContainsAny(question_lower, complex_patterns)

is_specific_enough(question) ==
  LET question_lower == Lower(question)
  IN  \/ ContainsAny(question_lower, specific_indicators)
      \/ HasColumnRef(question_lower)
      \/ ContainsAny(question_lower, specific_patterns)

has_multiple_interpretations(question) ==
  /\ ContainsAny(Lower(question), ambiguous_phrases)
  /\ ~is_specific_enough(question)

\* the strict clarification rule for a new question (lines 598-613)
needs_clarification(question, file_summary) ==
  \/ (file_summary # "" /\ (question = <<>> \/ Len(Strip(question)) < 2))
  \/ ~is_specific_enough(question)
  \/ has_multiple_interpretations(question)

\* the questions process_chat_request is given, and the heuristics' verdicts
\* on each of them (tabulated once)
Questions == Utterances \cup {SheetQuestion(sheet) : sheet \in SheetNames}

FileSummaries == {"", "sheet_summary", "sheet_listing"}

SpecificTaskRequest == [question \in Questions |-> is_specific_task_request(question)]
VbaOrComplexRequest == [question \in Questions |-> is_vba_or_complex_request(question)]
SpecificEnough      == [question \in Questions |-> is_specific_enough(question)]
NeedsClarification  ==
  [question \in Questions, file_summary \in FileSummaries |->
     needs_clarification(question, file_summary)]

(***************************************************************************)
(* Clarification Engine: classifier and question generation                *)
(***************************************************************************)
\* an argument that is a str, and the test for it; None is no str
Str(s) == [str |-> s]
IsStr(x) == "str" \in DOMAIN x

\* a classification whose recommended model is taken back when the OpenAI
\* client is missing
QuestionClassification_by_backend(classification, confidence, reasoning, recommended_model, needs, reasons) ==
  [classification |-> classification, confidence |-> confidence, reasoning |-> reasoning,
   recommended_model |-> IF openai_client THEN recommended_model ELSE "none",
   needs_clarification |-> needs, clarification_reasons |-> reasons]

\* confidences are kept in hundredths: 90 is 0.9
QuestionClassification(classification, confidence, reasoning, recommended_model, needs, reasons) ==
  [classification |-> classification, confidence |-> confidence, reasoning |-> reasoning,
   recommended_model |-> recommended_model, needs_clarification |-> needs,
   clarification_reasons |-> reasons]

\* any(k.lower() in q_lower for k in immediate_answer_keywords)
HasImmediateIndicator(q) ==
  \E k \in immediate_answer_keywords : Contains(Lower(q), Lower(k))

\* an analysis that asks about the goal of every continuation cue and every
\* short utterance before it looks for an immediate indicator
analyze_question_for_clarification_short_first(question) ==
  IF ~IsStr(question)
  THEN QuestionClassification("complex", 50, "analysis_failed", "openai", TRUE,
                              <<"system_error">>)
  ELSE
  LET q == Strip(question.str)
  IN  IF ContainsAny(q, continuation_keywords) \/ Len(q) <= 4 \/ SplitCount(q) <= 2
      THEN QuestionClassification("complex", 70, "continuation_or_short", "openai", TRUE,
                                  <<"goal">>)
      ELSE IF HasImmediateIndicator(q)
      THEN QuestionClassification(
             IF Contains(q, <<"k_o", "k_ryu">>) \/ Contains(q, <<"k_mun", "k_je">>)
             THEN "debugging" ELSE "simple",
             90, "specific_keywords", "openai", FALSE, <<>>)
      ELSE QuestionClassification("complex", 60, "ambiguous", "openai", TRUE,
                                  <<"unclear_task">>)

\* an analysis without the branch for continuation cues and short utterances
analyze_question_for_clarification_unclear(question) ==
  IF ~IsStr(question)
  THEN QuestionClassification("complex", 50, "analysis_failed", "openai", TRUE,
                              <<"system_error">>)
  ELSE
  LET q == Strip(question.str)
  IN  IF HasImmediateIndicator(q)
      THEN QuestionClassification(
             IF Contains(q, <<"k_o", "k_ryu">>) \/ Contains(q, <<"k_mun", "k_je">>)
             THEN "debugging" ELSE "simple",
             90, "specific_keywords", "openai", FALSE, <<>>)
      ELSE QuestionClassification("complex", 60, "ambiguous", "openai", TRUE,
                                  <<"unclear_task">>)

\* question.strip() raises for a question that is no str; the except clause
\* answers for it
analyze_question_for_clarification(question) ==
  IF ~IsStr(question)
  THEN QuestionClassification("complex", 50, "analysis_failed", "openai", TRUE,
                              <<"system_error">>)
  ELSE
  LET q               == Strip(question.str)
      q_lower         == Lower(q)
      has_immediate   == \E k \in immediate_answer_keywords : Contains(q_lower, Lower(k))
      is_continuation == ContainsAny(q, continuation_keywords)
      is_too_short    == Len(q) <= 4
      k_o_ryu         == <<"k_o", "k_ryu">>
      k_mun_je        == <<"k_mun", "k_je">>
  IN  IF has_immediate
      THEN QuestionClassification(
             IF Contains(q, k_o_ryu) \/ Contains(q, k_mun_je) THEN "debugging" ELSE "simple",
             90, "specific_keywords", "openai", FALSE, <<>>)
      ELSE IF is_continuation \/ is_too_short \/ SplitCount(q) <= 2
      THEN QuestionClassification("complex", 70, "continuation_or_short", "openai", TRUE,
                                  <<"goal">>)
      ELSE QuestionClassification("complex", 60, "ambiguous", "openai", TRUE,
                                  <<"unclear_task">>)

\* classify_question of the current AIService (app/services/ai_service.py)
problem_indicators ==
  [
   formula_error |->
     { <<"#", "n", "/", "a">>, <<"#", "v", "a", "l", "u", "e">>, <<"#", "r", "e", "f">>,
       <<"#", "d", "i", "v", "/", "0">>, <<"#", "n", "a", "m", "e">>, <<"k_o", "k_ryu">>,
       <<"k_e", "k_reo">> },
   data_issue |->
     { <<"k_jung", "k_bog">>, <<"k_bin", "k_kan">>, <<"k_gong", "k_baeg">>, <<"k_nu", "k_rag">>,
       <<"k_jeong", "k_ryeol">>, <<"k_pil", "k_teo">> },
   calculation |->
     { <<"k_hab", "k_gye">>, <<"k_pyeong", "k_gyun">>, <<"k_gae", "k_su">>, <<"k_choe", "k_dae">>,
       <<"k_choe", "k_so">>, <<"k_gye", "k_san">> },
   lookup |->
     { <<"k_chaj", "k_gi">>, <<"k_geom", "k_saeg">>, <<"k_jo", "k_hoe">>, <<"k_mae", "k_ching">>,
       <<"k_il", "k_chi">> },
   formatting |->
     { <<"k_seo", "k_sig">>, <<"k_saeg", "k_kkal">>, <<"k_gulg", "k_ge">>, <<"k_jeong", "k_ryeol">>,
       <<"k_keu", "k_gi">> },
   automation |->
     { <<"k_ja", "k_dong">>, <<"k_ban", "k_bog">>, <<"k_il", "k_gwal">>, <<"k_han", "k_beon", "k_e">>,
       <<"k_mae", "k_keu", "k_ro">> } ]

\* the keyword cascade of classify_question on a text
classify_text(question, context) ==
  LET question_lower    == Strip(Lower(question))
      is_beginner       == ContainsAny(question_lower, beginner_keywords)
      is_advanced       == ContainsAny(question_lower, advanced_keywords)
      is_complex        == ContainsAny(question_lower, classify_complex_keywords)
      is_continuation   == ContainsAny(question, classify_continuation_keywords)
      is_python_request == ContainsAny(question_lower, python_keywords)
      has_context       == Strip(context) # <<>>
      detected_problems ==
        {problem_type \in DOMAIN problem_indicators :
           ContainsAny(question_lower, problem_indicators[problem_type])}
      Classified(classification, confidence, recommended_model) ==
        QuestionClassification(classification, confidence, "classified", recommended_model,
                               FALSE, <<>>)
  IN  IF is_python_request THEN Classified("python_coding", 95, "gemini_pro")
      ELSE IF is_continuation /\ has_context
      THEN Classified("continuation", 90, "gemini_2_5_flash")
      ELSE IF is_complex \/ (is_advanced /\ Cardinality(detected_problems) > 2)
      THEN Classified("advanced_coding", 90, "gemini_pro")
      ELSE IF is_beginner \/ detected_problems = {}
      THEN Classified("beginner_help", 80, "gemini_2_0_flash")
      ELSE IF "automation" \in detected_problems \/ is_advanced
      THEN Classified("coding", 80, "gemini_2_5_flash")
      ELSE IF Cardinality(detected_problems) > 2
      THEN Classified("hybrid", 70, "gemini_2_5_flash")
      ELSE IF "lookup" \in detected_problems \/ "calculation" \in detected_problems
      THEN Classified("analysis", 70, "gemini_2_5_flash")
      ELSE Classified("simple", 60, "gemini_2_0_flash")

\* a classifier that reads a question that is no str as the empty text
classify_question_unguarded(question, context) ==
  classify_text(IF IsStr(question) THEN question.str ELSE <<>>, context)

\* question.lower() raises for a question that is no str; the except clause
\* answers for it
classify_question(question, context) ==
  IF ~IsStr(question)
  THEN QuestionClassification("beginner_help", 50, "classification_failed",
                              "gemini_2_0_flash", FALSE, <<>>)
  ELSE classify_text(question.str, context)

\* the classifier's verdict on each question (tabulated once)
ClassifierNeedsClarification ==
  [question \in Questions |->
     analyze_question_for_clarification(Str(question)).needs_clarification]

\* one question of the requested type: the gateway's, or the canned one when
\* the gateway call raises
fallback_questions ==
  [file_structure |-> "which_sheet", data_format |-> "number_or_text",
   goal |-> "which_condition", constraints |-> "which_excel_version"]

\* question generation that falls back to the canned question of "goal"
\* whatever the requested type
generate_clarification_questions_goal(clarification_type, net) ==
  LET r == IF gemini_model THEN old_call_gemini(net) ELSE old_call_openai(net)
  IN  IF r.ok THEN <<ClarificationQuestion("generated", clarification_type)>>
      ELSE <<ClarificationQuestion(fallback_questions["goal"], clarification_type)>>

generate_clarification_questions(clarification_type, net) ==
  LET r == IF gemini_model THEN old_call_gemini(net) ELSE old_call_openai(net)
  IN  IF r.ok THEN <<ClarificationQuestion("generated", clarification_type)>>
      ELSE <<ClarificationQuestion(
               IF clarification_type \in DOMAIN fallback_questions
               THEN fallback_questions[clarification_type]
               ELSE fallback_questions["goal"],
               clarification_type)>>

(***************************************************************************)
(* Session persistence of the context (app/services/session_service.py)    *)
(***************************************************************************)
\* the dict update_conversation_context stores under "conversation_context"
context_dict(c) ==
  [state |-> c.state,
   clarification_count |-> c.clarification_count,
   max_clarifications |-> c.max_clarifications,
   gathered_info |-> c.gathered_info,
   original_question |-> c.original_question,
   current_understanding |-> c.current_understanding,
   pending_question |-> IF c.pending_clarifications # <<>>
                        THEN c.pending_clarifications[1] ELSE None]

\* the keys get_conversation_context reads with context_data[...]
required_keys ==
  {"state", "clarification_count", "max_clarifications", "gathered_info",
   "original_question", "current_understanding"}

\* the one pending question rebuilt from the stored value d
pending_of(d) ==
  IF /\ "pending_question" \in DOMAIN d
     /\ d.pending_question # None
     /\ "question" \in DOMAIN d.pending_question
     /\ d.pending_question.question # ""
  THEN <<ClarificationQuestion(
           d.pending_question.question,
           IF "question_type" \in DOMAIN d.pending_question
           THEN d.pending_question.question_type ELSE "goal")>>
  ELSE <<>>

\* a reader that fills in the model's defaults for what the stored value lacks
get_conversation_context_lenient(d) ==
  IF d = None THEN None
  ELSE ConversationContext(
         IF "state" \in DOMAIN d /\ d.state \in ConversationState THEN d.state ELSE "initial",
         IF "clarification_count" \in DOMAIN d THEN d.clarification_count ELSE 0,
         IF "max_clarifications" \in DOMAIN d THEN d.max_clarifications ELSE 5,
         pending_of(d),
         IF "gathered_info" \in DOMAIN d THEN d.gathered_info ELSE EmptyDict,
         IF "original_question" \in DOMAIN d THEN d.original_question ELSE <<>>,
         IF "current_understanding" \in DOMAIN d THEN d.current_understanding
         ELSE NoUnderstanding)

\* get_conversation_context on the stored value d: a missing key (KeyError)
\* or a state that is no ConversationState (ValueError) is caught and gives
\* None
get_conversation_context(d) ==
  IF d = None THEN None
  ELSE IF ~(required_keys \subseteq DOMAIN d) THEN None
  ELSE IF d.state \notin ConversationState THEN None
  ELSE ConversationContext(
         d.state, d.clarification_count, d.max_clarifications, pending_of(d),
         d.gathered_info, d.original_question, d.current_understanding)

(***************************************************************************)
(* Orchestrator: backup AIService.process_chat_request                     *)
(***************************************************************************)
\* the AIResponse, the caller's context object after the call (it is mutated
\* in place), the context object the call created for itself, and whether
\* process_clarification_response ran
Reply(answer, model_used, response_type, next_action, conversation_state, c, made, engine) ==
  [raised |-> FALSE, answer |-> answer, model_used |-> model_used,
   response_type |-> response_type, next_action |-> next_action,
   conversation_state |-> conversation_state,
   context |-> c, created |-> made, engine |-> engine]

\* AIServiceException out of process_chat_request
Failure(c, engine) ==
  [raised |-> TRUE, answer |-> "none", model_used |-> "none",
   response_type |-> "none", next_action |-> "none", conversation_state |-> "none",
   context |-> c, created |-> None, engine |-> engine]

old_generate_solution_with_context(net) == old_call_gemini(net)

old_generate_planning_response(net) ==
  IF gemini_model THEN old_call_gemini(net) ELSE old_call_openai(net)

old_generate_debugging_response(net) == old_call_openai(net)

\* the classification is always "complex" here
old_process_standard_question(question, net) ==
  IF SpecificEnough[question]
  THEN old_generate_solution_with_context(net)
  ELSE old_generate_planning_response(net)

\* net1 serves the Clarification Engine's gateway call, net2 the response's
process_chat_request(question, file_summary, is_feedback, c, net1, net2) ==
  LET q == Strip(question)
      Solution(r, state, cc, engine) ==
        IF r.ok
        THEN Reply("solution", "openai", "solution", "complete", state, cc, None, engine)
        ELSE Failure(cc, engine)
  IN
  IF is_feedback THEN
    LET r == old_generate_debugging_response(net2)
    IN  IF r.ok THEN Reply("debugging", "openai", "normal", "none", "none", c, None, FALSE)
        ELSE Failure(c, FALSE)
  ELSE IF file_summary # "" /\ (\/ question = <<>>
                                \/ StartsWith(q, SheetTag)
                                \/ (Len(q) <= 2 /\ IsDigit(q))) THEN
    Reply("task_menu", "conversation", "clarification", "wait_for_clarification",
          "clarifying", c, None, FALSE)
  ELSE IF file_summary # "" /\ SpecificTaskRequest[question] THEN
    Solution(old_generate_solution_with_context(net2), "completed", c, FALSE)
  ELSE IF file_summary # "" /\ VbaOrComplexRequest[question] THEN
    Solution(old_generate_solution_with_context(net2), "completed", c, FALSE)
  ELSE IF file_summary # "" /\ q \in {<<"1">>, <<"2">>, <<"3">>, <<"4">>, <<"5">>} THEN
    Reply("task_examples", "conversation", "task_selection", "wait_for_task_details",
          "clarifying", c, None, FALSE)
  ELSE IF c # None /\ c.state = "clarifying" THEN
    LET updated_context == process_clarification_response(c, question, net1)
    IN  IF updated_context.state = "clarifying"
        THEN Reply("next_question", "conversation", "clarification",
                   "wait_for_clarification", updated_context.state,
                   updated_context, None, TRUE)
        ELSE Solution(old_generate_solution_with_context(net2), updated_context.state,
                      updated_context, TRUE)
  ELSE IF NeedsClarification[question, file_summary] /\ c = None THEN
    LET clarification_questions == generate_clarification_questions("goal", net1)
        made == [create_conversation_context(question) EXCEPT
                   !.pending_clarifications = clarification_questions,
                   !.state = "clarifying"]
    IN  Reply("first_question", "conversation", "clarification",
              "wait_for_clarification", made.state, c, made, FALSE)
  ELSE IF c # None /\ c.state \in {"planning", "executing"} THEN
    Solution(old_generate_solution_with_context(net2), "completed", c, FALSE)
  ELSE
    LET r == old_process_standard_question(question, net2)
    IN  IF r.ok THEN Reply("standard", "openai", "normal", "none", "none", c, None, FALSE)
        ELSE Failure(c, FALSE)

(***************************************************************************)
(* Turn handler: backup /api/chat/ask (handle_ask_request)                 *)
(***************************************************************************)
\* the handler appends the user's message before it calls the AI service and
\* the assistant's after; the transcript is kept as the number of assistant
\* rows with message_type "clarification" and conversation_state "clarifying"
\* (the handler reads the other rows only to build prompt text)
IsClarifyingReply(r) ==
  ~r.raised /\ r.response_type = "clarification" /\ r.conversation_state = "clarifying"

\* the file summary handed to the AI service: the selected sheet's summary,
\* the sheet listing of a file with no sheet selected, or "" without a file
FileSummary(selected_sheet) ==
  IF selected_sheet # "" /\ temp_file_content # "" THEN "sheet_summary"
  ELSE IF temp_file_content # "" /\ selected_sheet = "" THEN "sheet_listing"
  ELSE ""

\* what a turn did: its inputs as the AI service saw them, the context read
\* at its start and the reply
Turn(question, file_summary, is_feedback, before, reply) ==
  [question |-> question, file_summary |-> file_summary, is_feedback |-> is_feedback,
   before |-> before, reply |-> reply]

handle_ask_request(question, selected_sheet, is_feedback, net1, net2) ==
  LET asked == IF Strip(question) = <<>> /\ selected_sheet # ""
               THEN SheetQuestion(selected_sheet) ELSE question
      conversation_context == get_conversation_context(stored)
      file_summary == FileSummary(selected_sheet)
  IN  \E r \in {process_chat_request(asked, file_summary, is_feedback,
                                     conversation_context, net1, net2)} :
        /\ last' = Turn(asked, file_summary, is_feedback, stored, r)
        /\ clarifying_sent' = clarifying_sent + (IF IsClarifyingReply(r) THEN 1 ELSE 0)
        \* an AIServiceException is re-raised as an HTTP error: nothing is stored
        /\ stored' =
             IF ~r.raised /\ r.conversation_state # "none" /\ conversation_context # None
             THEN context_dict([r.context EXCEPT !.state = r.conversation_state])
             ELSE stored

Ask ==
  /\ turns < MaxTurns
  /\ turns' = turns + 1
  \* every gateway use of this handler is one request to one backend: the
  \* request of the engine and that of the response each succeed or fail
  /\ \E question \in Utterances, selected_sheet \in SheetNames \cup {""},
        is_feedback \in BOOLEAN, net1 \in {NetUp, NetDown}, net2 \in {NetUp, NetDown} :
       handle_ask_request(question, selected_sheet, is_feedback, net1, net2)
  /\ UNCHANGED <<temp_file_content, clientVars, engineVars, gatewayVars, askVars, callVars>>

\* /api/chat/analyze-sheets: a valid file is uploaded and stored on the session
Upload ==
  /\ temp_file_content' = "xlsx"
  /\ UNCHANGED <<stored, clarifying_sent, turns, last, clientVars, engineVars, gatewayVars,
                 askVars, callVars>>

\* The sessions table outlives the process.  The session is new, or it is one
\* whose previous turn asked a first clarifying question and whose
\* metadata_json holds that turn's context as update_conversation_context
\* writes it.
InitSession ==
  \/ /\ stored = None
     /\ clarifying_sent = 0
  \/ \E question \in {u \in Utterances : u # <<>> /\ needs_clarification(u, "")},
        text \in {"generated", fallback_questions["goal"]} :
       LET c == [create_conversation_context(question) EXCEPT
                   !.pending_clarifications = <<ClarificationQuestion(text, "goal")>>,
                   !.state = "clarifying"]
       IN  /\ stored = context_dict(c)
           /\ clarifying_sent = 1

Init ==
  /\ InitClients
  /\ InitSession
  /\ temp_file_content = ""
  /\ turns = 0
  /\ last = None
  /\ ectx = None
  /\ eprev = None
  /\ eanswer = None
  /\ enet = None
  /\ GatewayUnused
  /\ AskUnused
  /\ CallsUnused

Next == Ask \/ Upload

Spec == Init /\ [][Next]_vars

(***************************************************************************)
(* Model Gateway: current AIService (app/services/ai_service.py)           *)
(***************************************************************************)
Backends == {"gemini_pro", "gemini_2_5_flash", "gemini_2_0_flash", "openai"}

\* health[b]: a request sent to backend b with this prompt returns text
\* (else it times out or fails)
Healths == [Backends -> BOOLEAN]

\* whether _initialize_clients created the client of backend b
Initialised(b) ==
  CASE b = "gemini_pro"       -> gemini_pro_model
    [] b = "gemini_2_5_flash" -> gemini_2_5_flash_model
    [] b = "gemini_2_0_flash" -> gemini_2_0_flash_model
    [] b = "openai"           -> openai_client

\* a call that raised and a call that returned backend b's text, each with
\* the backends it sent a request to, in order
Fails(calls) == [ok |-> FALSE, by |-> "none", calls |-> calls]
Returns(b, calls) == [ok |-> TRUE, by |-> b, calls |-> calls]

\* r, after a request to backend b that failed
After(b, r) == [r EXCEPT !.calls = <<b>> \o @]

\* a gateway whose last backend answers with a text when its request fails
call_openai_silent(health) ==
  IF ~openai_client THEN Fails(<<>>) ELSE Returns("openai", <<"openai">>)

call_openai(health) ==
  IF ~openai_client THEN Fails(<<>>)
  ELSE IF health["openai"] THEN Returns("openai", <<"openai">>)
  ELSE Fails(<<"openai">>)

\* no fallback: a timeout or an API error is raised
call_gemini_pro(health) ==
  IF ~gemini_pro_model THEN Fails(<<>>)
  ELSE IF health["gemini_pro"] THEN Returns("gemini_pro", <<"gemini_pro">>)
  ELSE Fails(<<"gemini_pro">>)

\* on a timeout or an API error: the OpenAI mini model
call_gemini_2_0_flash(health) ==
  IF ~gemini_2_0_flash_model THEN Fails(<<>>)
  ELSE IF health["gemini_2_0_flash"]
       THEN Returns("gemini_2_0_flash", <<"gemini_2_0_flash">>)
  ELSE After("gemini_2_0_flash", call_openai(health))

\* on a timeout or an API error: Gemini 2.0 Flash
call_gemini_2_5_flash(health) ==
  IF ~gemini_2_5_flash_model THEN Fails(<<>>)
  ELSE IF health["gemini_2_5_flash"]
       THEN Returns("gemini_2_5_flash", <<"gemini_2_5_flash">>)
  ELSE After("gemini_2_5_flash", call_gemini_2_0_flash(health))

\* the outcome of an operation: the backend it called first, whether it
\* returned text, the backend whose text it returned, and the requests sent
Outcome(first, r) == [first |-> first, ok |-> r.ok, by |-> r.by, calls |-> r.calls]

generate_simple_response(health) ==
  IF gemini_2_0_flash_model THEN Outcome("gemini_2_0_flash", call_gemini_2_0_flash(health))
  ELSE IF gemini_2_5_flash_model THEN Outcome("gemini_2_5_flash", call_gemini_2_5_flash(health))
  ELSE Outcome("openai", call_openai(health))

generate_coding_response(health) ==
  IF gemini_2_5_flash_model THEN Outcome("gemini_2_5_flash", call_gemini_2_5_flash(health))
  ELSE IF gemini_pro_model THEN Outcome("gemini_pro", call_gemini_pro(health))
  ELSE Outcome("openai", call_openai(health))

generate_advanced_coding_response(health) ==
  IF gemini_pro_model THEN Outcome("gemini_pro", call_gemini_pro(health))
  ELSE IF gemini_2_5_flash_model THEN Outcome("gemini_2_5_flash", call_gemini_2_5_flash(health))
  ELSE Outcome("openai", call_openai(health))

generate_analysis_response(health) ==
  IF gemini_2_5_flash_model THEN Outcome("gemini_2_5_flash", call_gemini_2_5_flash(health))
  ELSE IF gemini_2_0_flash_model THEN Outcome("gemini_2_0_flash", call_gemini_2_0_flash(health))
  ELSE Outcome("openai", call_openai(health))

generate_planning_response(health) ==
  IF gemini_2_5_flash_model THEN Outcome("gemini_2_5_flash", call_gemini_2_5_flash(health))
  ELSE IF gemini_2_0_flash_model THEN Outcome("gemini_2_0_flash", call_gemini_2_0_flash(health))
  ELSE Outcome("openai", call_openai(health))

\* the first answer, then its refinement by OpenAI when that client exists
generate_hybrid_response(health) ==
  LET first == IF gemini_pro_model THEN "gemini_pro" ELSE "openai"
      initial_response == IF gemini_pro_model THEN call_gemini_pro(health)
                          ELSE call_openai(health)
      refined_response == call_openai(health)
  IN  IF ~initial_response.ok THEN Outcome(first, initial_response)
      ELSE IF openai_client
      THEN Outcome(first, [refined_response EXCEPT
                             !.calls = initial_response.calls \o @])
      ELSE Outcome(first, initial_response)

generate_python_response(health) ==
  IF gemini_pro_model THEN Outcome("gemini_pro", call_gemini_pro(health))
  ELSE IF gemini_2_5_flash_model THEN Outcome("gemini_2_5_flash", call_gemini_2_5_flash(health))
  ELSE Outcome("openai", call_openai(health))

generate_continuation_response(health) ==
  IF gemini_2_5_flash_model THEN Outcome("gemini_2_5_flash", call_gemini_2_5_flash(health))
  ELSE IF gemini_2_0_flash_model THEN Outcome("gemini_2_0_flash", call_gemini_2_0_flash(health))
  ELSE Outcome("openai", call_openai(health))

generate_beginner_response(health) ==
  IF gemini_2_0_flash_model THEN Outcome("gemini_2_0_flash", call_gemini_2_0_flash(health))
  ELSE IF gemini_2_5_flash_model THEN Outcome("gemini_2_5_flash", call_gemini_2_5_flash(health))
  ELSE Outcome("openai", call_openai(health))

\* the image analysis only adds text to the prompt (its failure is caught)
generate_debugging_response(health) == Outcome("openai", call_openai(health))

generate_solution_with_context(health) ==
  IF gemini_pro_model
  THEN LET pro    == call_gemini_pro(health)
           flash  == call_gemini_2_5_flash(health)
           openai == call_openai(health)
       IN  IF pro.ok THEN Outcome("gemini_pro", pro)
           ELSE IF flash.ok
           THEN Outcome("gemini_pro", [flash EXCEPT !.calls = pro.calls \o @])
           ELSE Outcome("gemini_pro",
                        [openai EXCEPT !.calls = pro.calls \o flash.calls \o @])
  ELSE Outcome("openai", call_openai(health))

(***************************************************************************)
(* The response-generation operations called one at a time                 *)
(***************************************************************************)
\* what gresult holds after operation op ran under health and ended as o
Called(op, health, o) ==
  [op |-> op, health |-> health, first |-> o.first, ok |-> o.ok, by |-> o.by,
   calls |-> o.calls]

InitGateway ==
  /\ openai_client \in BOOLEAN
  /\ gemini_pro_model \in BOOLEAN
  /\ gemini_2_5_flash_model \in BOOLEAN
  /\ gemini_2_0_flash_model \in BOOLEAN
  /\ gresult = None
  /\ gemini_model = FALSE
  /\ ectx = None
  /\ eprev = None
  /\ eanswer = None
  /\ enet = None
  /\ stored = None
  /\ temp_file_content = ""
  /\ clarifying_sent = 0
  /\ turns = 0
  /\ last = None
  /\ AskUnused
  /\ CallsUnused

gatewayFrame ==
  UNCHANGED <<clientVars, engineVars, sessionVars, askVars, callVars,
              gemini_pro_model, gemini_2_5_flash_model, gemini_2_0_flash_model>>

GenerateSimple ==
  /\ \E health \in Healths :
       gresult' = Called("generate_simple_response", health, generate_simple_response(health))
  /\ gatewayFrame

GenerateCoding ==
  /\ \E health \in Healths :
       gresult' = Called("generate_coding_response", health, generate_coding_response(health))
  /\ gatewayFrame

GenerateAdvancedCoding ==
  /\ \E health \in Healths :
       gresult' = Called("generate_advanced_coding_response", health, generate_advanced_coding_response(health))
  /\ gatewayFrame

GenerateAnalysis ==
  /\ \E health \in Healths :
       gresult' = Called("generate_analysis_response", health, generate_analysis_response(health))
  /\ gatewayFrame

GeneratePlanning ==
  /\ \E health \in Healths :
       gresult' = Called("generate_planning_response", health, generate_planning_response(health))
  /\ gatewayFrame

GenerateHybrid ==
  /\ \E health \in Healths :
       gresult' = Called("generate_hybrid_response", health, generate_hybrid_response(health))
  /\ gatewayFrame

GeneratePython ==
  /\ \E health \in Healths :
       gresult' = Called("generate_python_response", health, generate_python_response(health))
  /\ gatewayFrame

GenerateContinuation ==
  /\ \E health \in Healths :
       gresult' = Called("generate_continuation_response", health, generate_continuation_response(health))
  /\ gatewayFrame

GenerateBeginner ==
  /\ \E health \in Healths :
       gresult' = Called("generate_beginner_response", health, generate_beginner_response(health))
  /\ gatewayFrame

GenerateDebugging ==
  /\ \E health \in Healths :
       gresult' = Called("generate_debugging_response", health, generate_debugging_response(health))
  /\ gatewayFrame

GenerateSolutionWithContext ==
  /\ \E health \in Healths :
       gresult' = Called("generate_solution_with_context", health, generate_solution_with_context(health))
  /\ gatewayFrame

NextGateway ==
  \/ GenerateSimple
  \/ GenerateCoding
  \/ GenerateAdvancedCoding
  \/ GenerateAnalysis
  \/ GeneratePlanning
  \/ GenerateHybrid
  \/ GeneratePython
  \/ GenerateContinuation
  \/ GenerateBeginner
  \/ GenerateDebugging
  \/ GenerateSolutionWithContext

SpecGateway == InitGateway /\ [][NextGateway]_vars

(***************************************************************************)
(* Current turn handling: AIService.process_chat_request and /api/chat/ask *)
(* (app/services/ai_service.py, app/api/chat.py).                          *)
(*                                                                         *)
(* The services read attributes that the classes under app/models do not   *)
(* declare: SessionService.get_session reads db_session.filename and       *)
(* db_session.selected_sheet (session_service.py:96-97) although DBSession *)
(* has neither column (database.py:11-24), and process_chat_request reads  *)
(* ai_response.model_info although AIResponse has no such field            *)
(* (chat.py:72-80).  Such a read is modelled as giving None, the default   *)
(* the handler itself uses in getattr(session, 'selected_sheet', None);    *)
(* a write goes through update_session, which keeps only the keys the row  *)
(* has.                                                                    *)
(***************************************************************************)
\* requests the handler serves
MaxAsks == 2

\* "maekeuro" (macro)
Q_macro == <<"k_mae", "k_keu", "k_ro">>
\* "jeojanghaejwo" (save it)
Q_save == <<"k_jeo", "k_jang", "k_hae", "k_jwo">>

\* the requests carry no image
AskQuestions == {Q_empty, Q_help, Q_macro, Q_save}

is_file_generation_request(question) ==
  \/ ContainsAny(Lower(question), explicit_file_generation_keywords)
  \/ ContainsAny(question, broken_file_generation_keywords)

is_complex_task(question) ==
  LET question_lower == Lower(question)
      has_complex_keywords == ContainsAny(question_lower, task_complex_keywords)
      operation_count ==
          (IF ContainsAny(question_lower, operation_joiners) THEN 1 ELSE 0)
        + (IF ContainsAny(question_lower, operation_multiples) THEN 1 ELSE 0)
        + (IF /\ Contains(question_lower, operation_sheet)
              /\ ContainsAny(question_lower, operation_all) THEN 1 ELSE 0)
  IN  has_complex_keywords \/ operation_count >= 2

FileGenerationRequest ==
  [question \in AskQuestions \cup {Q_three} |-> is_file_generation_request(question)]
ComplexTask == [question \in AskQuestions \cup {Q_three} |-> is_complex_task(question)]

\* the AIResponse process_chat_request returns, or the AIServiceException it
\* raises; calls are the requests its response generator sent
AIResponse(answer, response_type, next_action, conversation_state, o) ==
  [raised |-> FALSE, answer |-> answer, response_type |-> response_type,
   next_action |-> next_action, conversation_state |-> conversation_state,
   calls |-> o.calls]
AIServiceException(o) ==
  [raised |-> TRUE, answer |-> "none", response_type |-> "none", next_action |-> "none",
   conversation_state |-> "none", calls |-> o.calls]
NoCall == [ok |-> TRUE, by |-> "conversation", calls |-> <<>>]

\* the branch that answers with the sheet's data and the menu of five tasks
is_menu_request(question, file_summary) ==
  /\ file_summary # ""
  /\ \/ question = <<>>
     \/ StartsWith(Strip(question), SheetTag)
     \/ (IsDigit(Strip(question)) /\ Len(Strip(question)) <= 2)

process_chat_request_current(question, file_summary, is_feedback, image_data, health) ==
  IF is_feedback
  THEN LET o == generate_debugging_response(health)
       IN  IF o.ok THEN AIResponse("generated", "normal", "none", "none", o)
           ELSE AIServiceException(o)
  ELSE IF is_menu_request(question, file_summary)
  THEN AIResponse("sheet_data_and_task_menu", "clarification", "wait_for_clarification",
                  "clarifying", NoCall)
  ELSE IF file_summary # "" /\ Strip(question) \in {<<"1">>, <<"2">>, <<"3">>, <<"4">>, <<"5">>}
  THEN AIResponse("task_examples", "clarification", "wait_for_task_details", "clarifying", NoCall)
  ELSE IF FileGenerationRequest[question]
  THEN LET o == generate_solution_with_context(health)
       IN  IF o.ok THEN AIResponse("generated", "file_generation", "generate_file", "completed", o)
           ELSE AIServiceException(o)
  ELSE IF image_data
  THEN IF ComplexTask[question]
       THEN LET o == generate_solution_with_context(health)
            IN  IF o.ok
                THEN AIResponse("generated", "solution_with_image", "complete", "completed", o)
                ELSE AIServiceException(o)
       ELSE LET o == generate_coding_response(health)
            IN  IF o.ok
                THEN AIResponse("generated", "solution_with_image", "complete", "completed", o)
                ELSE AIServiceException(o)
  ELSE IF ComplexTask[question]
  THEN LET o == generate_solution_with_context(health)
       IN  IF o.ok THEN AIResponse("generated", "solution", "complete", "completed", o)
           ELSE AIServiceException(o)
  ELSE LET o == generate_coding_response(health)
       IN  IF o.ok THEN AIResponse("generated", "solution", "complete", "completed", o)
           ELSE AIServiceException(o)

\* the session row as the handler reads it
DBSession == [plan |-> plan, temp_file_content |-> temp_file_content]

\* kwargs are written to the columns the row has; a temp_file_content of
\* None ("" here) leaves the column alone
update_session(db_session, kwargs) ==
  [key \in DOMAIN db_session |->
     IF key \notin DOMAIN kwargs THEN db_session[key]
     ELSE IF key = "temp_file_content"
          THEN (IF kwargs[key] # "" THEN kwargs[key] ELSE db_session[key])
          ELSE kwargs[key]]

\* getattr(session, 'selected_sheet', None), "" standing for None
session_selected_sheet(db_session) ==
  IF "selected_sheet" \in DOMAIN db_session THEN db_session["selected_sheet"] ELSE ""

\* the file context of a turn: the selected sheet's data (an error text when
\* the session holds no file), else the remembered sheet's data, else nothing
ask_file_summary(db_session, selected_sheet) ==
  IF selected_sheet # ""
  THEN IF db_session.temp_file_content # "" THEN "sheet_data" ELSE "sheet_error"
  ELSE IF session_selected_sheet(db_session) # "" /\ db_session.temp_file_content # ""
       THEN "sheet_data"
       ELSE ""

\* what the client receives
HttpResponse(status, answer, response_type, next_action, conversation_state, calls, health) ==
  [status |-> status, answer |-> answer, response_type |-> response_type,
   next_action |-> next_action, conversation_state |-> conversation_state,
   calls |-> calls, health |-> health]

Request(question, selected_sheet, file, file_summary, phase, response) ==
  [question |-> question, selected_sheet |-> selected_sheet,
   file |-> file, file_summary |-> file_summary, phase |-> phase, response |-> response]

\* the two add_message calls that follow process_chat_request
add_messages(messages, turn) ==
  messages \o <<[role |-> "user", turn |-> turn], [role |-> "assistant", turn |-> turn]>>

\* a handler that stores the user's message before it calls the AI service
finish_ask_request_user_first(i, r, health) ==
  /\ reqs' = [reqs EXCEPT
       ![i].phase = "done",
       ![i].response =
          IF r.raised
          THEN HttpResponse(500, "error", "none", "none", "none", r.calls, health)
          ELSE HttpResponse(200, r.answer, r.response_type, r.next_action,
                            r.conversation_state, r.calls, health)]
  /\ transcript' = IF r.raised THEN Append(transcript, [role |-> "user", turn |-> i])
                   ELSE add_messages(transcript, i)

\* the rest of the handler once process_chat_request has ended as r
finish_ask_request(i, r, health) ==
  /\ reqs' = [reqs EXCEPT
       ![i].phase = "done",
       ![i].response =
          IF r.raised
          THEN HttpResponse(500, "error", "none", "none", "none", r.calls, health)
          ELSE HttpResponse(200, r.answer, r.response_type, r.next_action,
                            r.conversation_state, r.calls, health)]
  /\ transcript' = IF r.raised THEN transcript ELSE add_messages(transcript, i)

\* availability of the backends while one request is served
AllUp == [b \in Backends |-> TRUE]
AllDown == [b \in Backends |-> FALSE]
AskHealths == {AllUp, AllDown, [AllUp EXCEPT !["gemini_pro"] = FALSE]}

askFrame == UNCHANGED <<clientVars, engineVars, stored, clarifying_sent, turns, last,
                        gemini_pro_model, gemini_2_5_flash_model, gemini_2_0_flash_model,
                        gresult, callVars>>

\* /api/chat/ask from the request's arrival to the handler's first wait,
\* which is the first backend request
AskArrive ==
  /\ Len(reqs) < MaxAsks
  /\ \E question \in AskQuestions, selected_sheet \in SheetNames \cup {""} :
       \E session \in {DBSession} :
         \E row \in {IF selected_sheet # ""
                     THEN update_session(session,
                            [temp_file_content |-> session.temp_file_content,
                             selected_sheet |-> selected_sheet])
                     ELSE session},
            file_summary \in {ask_file_summary(session, selected_sheet)} :
           LET i == Len(reqs) + 1
               arrived(phase, response) ==
                 Request(question, selected_sheet, session.temp_file_content # "",
                         file_summary, phase, response)
           IN  /\ plan' = row.plan
               /\ temp_file_content' = row.temp_file_content
               /\ IF selected_sheet # "" /\ Strip(question) = <<>>
                  THEN /\ reqs' = Append(reqs, arrived("done",
                            HttpResponse(200, "file_summary_and_question_prompt",
                                         "sheet_selection", "wait_for_question", "none",
                                         <<>>, None)))
                       /\ transcript' = transcript
                  ELSE IF is_menu_request(question, file_summary)
                  THEN \E r \in {process_chat_request_current(question, file_summary, FALSE,
                                                              FALSE, AllUp)} :
                         /\ reqs' = Append(reqs, arrived("done",
                              HttpResponse(200, r.answer, r.response_type, r.next_action,
                                           r.conversation_state, r.calls, None)))
                         /\ transcript' = add_messages(transcript, i)
                  ELSE /\ reqs' = Append(reqs, arrived("waiting", None))
                       /\ transcript' = transcript
  /\ askFrame

\* the handler of request i resumes when its backend requests have ended
AskComplete ==
  /\ \E i \in DOMAIN reqs, health \in AskHealths :
       /\ reqs[i].phase = "waiting"
       /\ \E r \in {process_chat_request_current(reqs[i].question, reqs[i].file_summary, FALSE,
                                                 FALSE, health)} :
            finish_ask_request(i, r, health)
  /\ UNCHANGED <<plan, temp_file_content>>
  /\ askFrame

\* /api/chat/analyze-sheets: a valid file is stored on the session
AnalyzeSheets ==
  /\ \E row \in {update_session(DBSession, [temp_file_content |-> "xlsx", filename |-> "book.xlsx"])} :
       /\ plan' = row.plan
       /\ temp_file_content' = row.temp_file_content
  /\ UNCHANGED <<reqs, transcript>>
  /\ askFrame

\* a plan stored on the row through update_session(session_id, plan=...)
StoredPlan == [text |-> "plan"]

\* _initialize_clients created every client, the OpenAI client only, or none
InitAsk ==
  /\ openai_client \in BOOLEAN
  /\ gemini_pro_model \in {g \in BOOLEAN : g => openai_client}
  /\ gemini_2_5_flash_model = gemini_pro_model
  /\ gemini_2_0_flash_model = gemini_pro_model
  /\ gemini_model = FALSE
  /\ gresult = None
  /\ ectx = None
  /\ eprev = None
  /\ eanswer = None
  /\ enet = None
  /\ stored = None
  /\ temp_file_content = ""
  /\ clarifying_sent = 0
  /\ turns = 0
  /\ last = None
  /\ reqs = <<>>
  /\ transcript = <<>>
  /\ plan \in {None, StoredPlan}
  /\ CallsUnused

NextAsk == AskArrive \/ AskComplete \/ AnalyzeSheets

SpecAsk == InitAsk /\ [][NextAsk]_vars

(***************************************************************************)
(* Service functions called directly                                       *)
(***************************************************************************)
\* what a caller passes as clarification_type: a question type, or the
\* classifier's reason for an unclear task
ClarificationTypes == QuestionTypes \cup {"unclear_task"}

\* each behaviour makes one call
callFrame == UNCHANGED <<clientVars, engineVars, sessionVars, gatewayVars, askVars>>

CallGenerateClarificationQuestions ==
  /\ call = None
  /\ \E clarification_type \in ClarificationTypes, net \in Nets :
       call' = [op |-> "generate_clarification_questions",
                clarification_type |-> clarification_type, net |-> net,
                result |-> generate_clarification_questions(clarification_type, net)]
  /\ callFrame

\* a complete stored context, and what is left of it when the write was cut
\* short, a key is missing or the state is not one of the enumeration
StoredContexts ==
  {context_dict([create_conversation_context(question) EXCEPT
                   !.pending_clarifications = pending,
                   !.state = state]) :
     question \in {Q_cleanup, Q_help}, state \in {"clarifying", "planning"},
     pending \in {<<>>, <<ClarificationQuestion("generated", "goal")>>}}

Without(d, key) == [k \in (DOMAIN d) \ {key} |-> d[k]]

Blobs ==
  StoredContexts
  \cup {Without(d, key) : d \in StoredContexts, key \in required_keys}
  \cup {[d EXCEPT !.state = "legacy"] : d \in StoredContexts}
  \cup {[d EXCEPT !.pending_question = [question |-> "generated"]] : d \in StoredContexts}
  \cup {EmptyDict}

\* get_conversation_context as the /ask handler calls it: the turn's
\* process_chat_request is given what it returns
CallGetConversationContext ==
  /\ call = None
  /\ \E d \in Blobs, question \in Utterances, net \in {NetUp, NetDown} :
       \E c \in {get_conversation_context(d)} :
         call' = [op |-> "get_conversation_context", blob |-> d, result |-> c,
                  question |-> question, net |-> net,
                  reply |-> process_chat_request(question, "", FALSE, c, net, net)]
  /\ callFrame

\* "hapgye pyeonggyun chajgi" (total average find)
Q_totals == <<"k_hab", "k_gye", " ", "k_pyeong", "k_gyun", " ", "k_chaj", "k_gi">>
\* "pandas"
Q_pandas == <<"p", "a", "n", "d", "a", "s">>
\* "gyesok" (go on)
Q_continue == <<"k_gye", "k_sog">>
\* "jungbog" (duplicates)
Q_duplicates == <<"k_jung", "k_bog">>

\* "SUM"
Q_sum == <<"S", "U", "M">>
\* "gyesok oryu" (go on, error)
Q_continue_error == <<"k_gye", "k_sog", " ", "k_o", "k_ryu">>

\* "VLOOKUP oryu" (VLOOKUP error)
Q_vlookup_error == <<"V", "L", "O", "O", "K", "U", "P", " ", "k_o", "k_ryu">>

\* what a caller passes as question: some text, or None
ClassifierArguments ==
  {Str(q) : q \in Utterances \cup {Q_macro, Q_totals, Q_pandas, Q_continue, Q_duplicates,
                                   Q_sum, Q_continue_error, Q_vlookup_error}}
  \cup {None}

\* the context argument: none, or the text of an earlier exchange
Contexts == {<<>>, <<"k_i", "k_jeon">>}

CallClassifyQuestion ==
  /\ call = None
  /\ \E question \in ClassifierArguments, context \in Contexts :
       call' = [op |-> "classify_question", question |-> question, context |-> context,
                result |-> classify_question(question, context)]
  /\ callFrame

CallAnalyzeQuestionForClarification ==
  /\ call = None
  /\ \E question \in ClassifierArguments :
       call' = [op |-> "analyze_question_for_clarification", question |-> question,
                result |-> analyze_question_for_clarification(question)]
  /\ callFrame

\* update_conversation_context on a context with a queue of pending
\* questions, then get_conversation_context on what it stored
CallUpdateConversationContext ==
  /\ call = None
  /\ \E question \in {Q_cleanup, Q_help}, state \in {"clarifying", "planning"},
        pending \in Queues(MaxQueue) :
       \E c \in {[create_conversation_context(question) EXCEPT
                    !.pending_clarifications = pending,
                    !.state = state]} :
         call' = [op |-> "update_conversation_context", context |-> c,
                  result |-> get_conversation_context(context_dict(c))]
  /\ callFrame

\* process_chat_request of the current AIService on a turn that is no
\* feedback and carries no image, with and without the data of a sheet
CallProcessChatRequest ==
  /\ call = None
  /\ \E question \in {Q_three, Q_help}, file_summary \in {"", "sheet_data"},
        health \in {AllUp, AllDown} :
       call' = [op |-> "process_chat_request", question |-> Str(question),
                file_summary |-> file_summary, health |-> health,
                result |-> process_chat_request_current(question, file_summary, FALSE,
                                                        FALSE, health)]
  /\ callFrame

\* the classifiers are process-wide singletons: between two calls the process
\* may have been started again with other API keys in its environment
Restart ==
  /\ call # None
  /\ call.op \in {"classify_question", "analyze_question_for_clarification"}
  /\ DOMAIN call \cap {"restarted", "again"} = {}
  /\ call' = [restarted |-> TRUE] @@ call
  /\ gemini_model' \in BOOLEAN
  /\ openai_client' \in BOOLEAN
  /\ UNCHANGED <<engineVars, sessionVars, gatewayVars, askVars>>

\* the classifier that was called is called once more with the same
\* question and context
CallAgain ==
  /\ call # None
  /\ call.op \in {"classify_question", "analyze_question_for_clarification"}
  /\ "again" \notin DOMAIN call
  /\ call' = [again |-> IF call.op = "classify_question"
                        THEN classify_question(call.question, call.context)
                        ELSE analyze_question_for_clarification(call.question)] @@ call
  /\ callFrame

InitCalls ==
  /\ InitClients
  /\ ectx = None
  /\ eprev = None
  /\ eanswer = None
  /\ enet = None
  /\ stored = None
  /\ temp_file_content = ""
  /\ clarifying_sent = 0
  /\ turns = 0
  /\ last = None
  /\ GatewayUnused
  /\ AskUnused
  /\ call = None

NextCalls ==
  \/ CallGenerateClarificationQuestions
  \/ CallGetConversationContext
  \/ CallClassifyQuestion
  \/ CallAnalyzeQuestionForClarification
  \/ CallUpdateConversationContext
  \/ CallProcessChatRequest
  \/ Restart
  \/ CallAgain

SpecCalls == InitCalls /\ [][NextCalls]_vars

C5_PlanningWhenDone ==
  eprev # None =>
    /\ ectx.state =
         IF \/ ectx.pending_clarifications = <<>>
            \/ ectx.clarification_count >= ectx.max_clarifications
         THEN "planning" ELSE "clarifying"
    /\ (/\ Len(eprev.pending_clarifications) = 2
        /\ eprev.max_clarifications = 2
        /\ eprev.clarification_count = 0) => ectx.state = "clarifying"
    /\ (/\ Len(eprev.pending_clarifications) = 1
        /\ eprev.max_clarifications = 2
        /\ eprev.clarification_count = 1)
         => (ectx.state = "planning" /\ ectx.pending_clarifications = <<>>)

\* the second of two pending questions has been answered under a limit of 2
C5_SecondAnswerProcessed ==
  /\ eprev # None
  /\ Len(eprev.pending_clarifications) = 1
  /\ eprev.max_clarifications = 2
  /\ eprev.clarification_count = 1
  /\ ectx.clarification_count = 2
  /\ ectx.state = "planning"

C8_FirstQuestionContextStored ==
  (/\ last # None
   /\ last.before = None
   /\ ~last.reply.raised
   /\ last.reply.answer = "first_question") => stored = context_dict(last.reply.created)

\* C9: for a new question with no stored context the orchestrator emits a
\* first clarifying question with state CLARIFYING exactly when
\* analyze_question_for_clarification says needs_clarification; the request
\* "jeong-ri-hae-jwo" gets one.
C9_ClarifiesWhenClassifierSays ==
  (/\ last # None
   /\ last.before = None
   /\ ~last.is_feedback
   /\ ~last.reply.raised) =>
    LET asks == /\ last.reply.answer = "first_question"
                /\ last.reply.conversation_state = "clarifying"
    IN  /\ asks <=> ClassifierNeedsClarification[last.question]
        /\ last.question = Q_cleanup => asks

\* C10: when the backend a response-generation operation calls first fails
\* and another initialised backend would return text for the same prompt,
\* the operation returns that backend's text instead of raising.
C10_FailureFallsBack ==
  (/\ gresult # None
   /\ Initialised(gresult.first)
   /\ ~gresult.health[gresult.first]
   /\ \E b \in Backends \ {gresult.first} : Initialised(b) /\ gresult.health[b]) =>
    /\ gresult.ok
    /\ gresult.by # gresult.first
    /\ Initialised(gresult.by)
    /\ gresult.health[gresult.by]

\* C11: within one response-generation request, a backend that has timed
\* out or failed is not sent a request again.
C11_NoBackendCalledAgainAfterFailure ==
  gresult # None =>
    \A i, j \in DOMAIN gresult.calls :
      (i < j /\ gresult.calls[i] = gresult.calls[j]) => gresult.health[gresult.calls[i]]

\* a request the handler has answered after process_chat_request sent
\* requests to the backends under some availability
Served(i) ==
  /\ reqs[i].phase = "done"
  /\ reqs[i].response.health # None

\* every backend this process has a client for fails
AllFail(health) == \A b \in Backends : Initialised(b) => ~health[b]

\* C12: a turn during which every backend fails ends with one error
\* response (HTTP 500) after at most five backend requests, and stores no
\* message.
C12_AllFailOneError ==
  \A i \in DOMAIN reqs :
    (Served(i) /\ AllFail(reqs[i].response.health)) =>
      /\ reqs[i].response.status = 500
      /\ Len(reqs[i].response.calls) <= 5
      /\ \A m \in DOMAIN transcript : transcript[m].turn # i

\* a turn whose cascade tried several backends, all of which failed
C12_CascadeExhausted ==
  \E i \in DOMAIN reqs :
    /\ Served(i)
    /\ AllFail(reqs[i].response.health)
    /\ Len(reqs[i].response.calls) >= 4
    /\ reqs[i].response.status = 500
StructureAnswers == {"file_summary_and_question_prompt", "sheet_data_and_task_menu"}

\* C17: a turn with an empty question, on a session that holds a file and
\* with no sheet selected, is answered with the file's structure, without a
\* request to a backend and with a conversation state other than CLARIFYING.
C17_EmptyQuestionGetsStructure ==
  \A i \in DOMAIN reqs :
    (/\ reqs[i].phase = "done"
     /\ reqs[i].question = <<>>
     /\ reqs[i].file
     /\ reqs[i].selected_sheet = "") =>
      /\ reqs[i].response.status = 200
      /\ reqs[i].response.answer \in StructureAnswers
      /\ reqs[i].response.calls = <<>>
      /\ reqs[i].response.conversation_state # "clarifying"

\* C18: once a turn selected a sheet on a session that holds a file, every
\* later turn that names no sheet gets that sheet's data as its file
\* context, as long as no other sheet is selected in between (the session
\* is not cleared or deleted here).
C18_SelectedSheetCarriedForward ==
  \A i, j \in DOMAIN reqs :
    (/\ i < j
     /\ reqs[i].selected_sheet # ""
     /\ reqs[i].file
     /\ reqs[j].selected_sheet = ""
     /\ \A k \in (i + 1)..(j - 1) :
          reqs[k].selected_sheet \in {"", reqs[i].selected_sheet}) =>
      reqs[j].file_summary = "sheet_data"
\* the gateway call of the engine fails under net: the client it uses is
\* missing or its request fails
EngineGatewayFails(net) ==
  IF gemini_model THEN ~net["gemini"] ELSE (~openai_client \/ ~net["openai"])

\* C15: when the answer ends the clarification and the gateway call for the
\* final understanding fails, process_clarification_response still returns:
\* the state is PLANNING and current_understanding is the fallback made of
\* original_question and gathered_info.
C15_UnderstandingFallsBack ==
  (/\ eprev # None
   /\ \/ ectx.pending_clarifications = <<>>
      \/ ectx.clarification_count >= ectx.max_clarifications
   /\ EngineGatewayFails(enet)) =>
    /\ ectx.state = "planning"
    /\ ectx.current_understanding.kind = "fallback"
    /\ ectx.current_understanding.original_question = eprev.original_question
    /\ ectx.current_understanding.gathered_info = ectx.gathered_info

\* the last pending question was answered while the gateway was failing
C15_FinishedWithoutGateway ==
  /\ eprev # None
  /\ Len(eprev.pending_clarifications) = 1
  /\ ectx.pending_clarifications = <<>>
  /\ EngineGatewayFails(enet)
  /\ gemini_model
  /\ ectx.gathered_info # EmptyDict
  /\ ectx.state = "planning"
\* C14: when its gateway call fails, generate_clarification_questions
\* returns one question: a canned one, that of the requested type when the
\* type is one of the four, carrying the requested type as question_type.
C14_CannedQuestionOfType ==
  (/\ call # None
   /\ call.op = "generate_clarification_questions"
   /\ EngineGatewayFails(call.net)) =>
    /\ Len(call.result) = 1
    /\ call.result[1].question_type = call.clarification_type
    /\ \E t \in QuestionTypes : call.result[1].question = fallback_questions[t]
    /\ call.clarification_type \in QuestionTypes =>
         call.result[1].question = fallback_questions[call.clarification_type]

\* a question about the file structure was requested while no backend answered
C14_FileStructureWithoutGateway ==
  /\ call # None
  /\ call.op = "generate_clarification_questions"
  /\ EngineGatewayFails(call.net)
  /\ call.clarification_type = "file_structure"
  /\ call.result = <<ClarificationQuestion("which_sheet", "file_structure")>>
\* a stored value that lacks a required key or whose state is unknown
Broken(d) ==
  \/ ~(required_keys \subseteq DOMAIN d)
  \/ d.state \notin ConversationState

\* C19: for a stored value that is cut short, lacks a required key or has
\* an unknown state, get_conversation_context returns None and the turn is
\* processed as a turn without context.
C19_BrokenBlobIsNoContext ==
  (/\ call # None
   /\ call.op = "get_conversation_context"
   /\ Broken(call.blob)) =>
    /\ call.result = None
    /\ call.reply = process_chat_request(call.question, "", FALSE, None, call.net, call.net)

\* a stored CLARIFYING context whose original_question is missing was read
\* on a turn that would have answered its pending question
C19_KeyMissing ==
  /\ call # None
  /\ call.op = "get_conversation_context"
  /\ DOMAIN call.blob = (required_keys \cup {"pending_question"}) \ {"original_question"}
  /\ call.blob.state = "clarifying"
  /\ call.result = None
  /\ ~call.reply.engine
\* C20: for a question on which they fail internally (one that is no str),
\* classify_question and analyze_question_for_clarification return a
\* classification: beginner_help or complex, confidence 0.5, and a reasoning
\* that names the failure.
C20_ClassifierSafeDefault ==
  (/\ call # None
   /\ call.op \in {"classify_question", "analyze_question_for_clarification"}
   /\ ~IsStr(call.question)) =>
    /\ call.result.classification \in {"beginner_help", "complex"}
    /\ call.result.confidence = 50
    /\ call.result.reasoning \in {"classification_failed", "analysis_failed"}

\* classify_question was given None
C20_ClassifyQuestionFailed ==
  /\ call # None
  /\ call.op = "classify_question"
  /\ call.question = None
  /\ call.result.classification = "beginner_help"
  /\ call.result.reasoning = "classification_failed"
\* C21: the utterance "VLOOKUP an dwaeyo" (VLOOKUP does not work) is
\* classified by either classifier with category debugging and
\* needs_clarification false.
C21_NotWorkingIsDebugging ==
  (/\ call # None
   /\ call.op \in {"classify_question", "analyze_question_for_clarification"}
   /\ call.question = Str(Q_vlookup)) =>
    /\ call.result.classification = "debugging"
    /\ call.result.needs_clarification = FALSE
C23_ShortOrContinuationAsksGoal ==
  (/\ call # None
   /\ call.op = "analyze_question_for_clarification"
   /\ IsStr(call.question)
   /\ ~HasImmediateIndicator(call.question.str)
   /\ LET q == Strip(call.question.str)
      IN  \/ ContainsAny(q, continuation_keywords)
          \/ Len(q) <= 4
          \/ SplitCount(q) <= 2) =>
    /\ call.result.needs_clarification = TRUE
    /\ call.result.clarification_reasons = <<"goal">>

\* the continuation cue "gyesok" was analysed
C23_ContinuationCueAnalysed ==
  /\ call # None
  /\ call.op = "analyze_question_for_clarification"
  /\ call.question = Str(Q_continue)
  /\ call.result.needs_clarification = TRUE
  /\ call.result.clarification_reasons = <<"goal">>
\* C24: classify_question resolves the category by the precedence
\* continuation > complex > advanced > beginner > default: an utterance with
\* a continuation keyword and a non-empty context is classified
\* continuation, and an utterance that matches both the advanced and the
\* beginner keywords is not classified beginner_help.
C24_FixedPrecedence ==
  (/\ call # None
   /\ call.op = "classify_question"
   /\ IsStr(call.question)) =>
    LET question_lower == Strip(Lower(call.question.str))
    IN  /\ (/\ ContainsAny(call.question.str, classify_continuation_keywords)
            /\ Strip(call.context) # <<>>) =>
             call.result.classification = "continuation"
        /\ (/\ ContainsAny(question_lower, advanced_keywords)
            /\ ContainsAny(question_lower, beginner_keywords)
            /\ ~(/\ ContainsAny(call.question.str, classify_continuation_keywords)
                 /\ Strip(call.context) # <<>>)) =>
             call.result.classification # "beginner_help"
C26_HybridTwoCallsDifferentBackends ==
  (/\ gresult # None
   /\ gresult.op = "generate_hybrid_response"
   /\ gresult.ok) =>
    /\ Len(gresult.calls) = 2
    /\ gresult.calls[1] # gresult.calls[2]
C28_DigitSelectsTask ==
  (/\ call # None
   /\ call.op = "process_chat_request"
   /\ call.file_summary # ""
   /\ Strip(call.question.str) \in {<<"1">>, <<"2">>, <<"3">>, <<"4">>, <<"5">>}) =>
    /\ call.result.answer = "task_examples"
    /\ call.result.next_action = "wait_for_task_details"
C30_FailedTurnStoresNothing ==
  [][\A i \in DOMAIN reqs :
       (/\ reqs[i].phase = "waiting"
        /\ reqs'[i].phase = "done"
        /\ reqs'[i].response.status = 500) =>
         /\ transcript' = transcript
         /\ stored' = stored]_vars

\* a turn failed after an earlier turn was answered: the transcript holds
\* the two messages of the answered turn only
C30_FailedTurnAfterAnsweredTurn ==
  \E i, j \in DOMAIN reqs :
    /\ j < i
    /\ reqs[j].phase = "done"
    /\ reqs[j].response.status = 200
    /\ reqs[i].phase = "done"
    /\ reqs[i].response.status = 500
    /\ Len(reqs[i].response.calls) > 0
    /\ Len(transcript) = 2
    /\ \A m \in DOMAIN transcript : transcript[m].turn = j
====
